---- MODULE Spec2Model ----
(***************************************************************************)
(* A model of the monitoring package: the Timer and ErrorCatcher           *)
(* decorators with their results stores (monitoring.py), the queue-fed     *)
(* log writer (pymaap/logging_backend.py), and the manual metrics calls    *)
(* with the reconstruction of call records (monitoring.py,                 *)
(* pymaap/analysis.py).                                                    *)
(***************************************************************************)
EXTENDS Integers, Sequences, FiniteSets, TLC

\* ------------------------------------------------------------------ bounds
NumProducers == 1
NumInstances == 1
NumProcesses == 2
NumObjects == 2
MaxDuration == 2
MaxInits == 2
MaxRecords == 2
MaxShutdowns == 2
MaxStarts == 2
MaxLines == 3
MaxPerf == 1
MaxWall == 1
MaxStamps == 4
MaxTime == 3
MaxCluster == 3
MaxGap == 1
MaxRaw == 3
MaxArgLength == 2
MaxRows == 1
MaxLoggerInits == 2
MaxLogCalls == 3

Producers == 1..NumProducers
\* every process that can call a wrapped function, and every decorator
\* instance a module can make
Processes == 1..NumProcesses
Instances == 1..NumObjects
Timers == 1..NumInstances
Catchers == 1..NumInstances
Durations == 1..MaxDuration

\* ------------------------------------------------------------- value sets
NoTimer == [made |-> FALSE]
NoCatcher == [made |-> FALSE]
NoFile == [exists |-> FALSE]
Free == 0
NoOutcome == [kind |-> "none"]
NoCall == [wrapper |-> "none", inst |-> 0, fname |-> "", args |-> << >>, fargs |-> << >>,
           uuid |-> 0, outcome |-> NoOutcome, row |-> << >>, existing |-> NoFile,
           final |-> NoOutcome]

Formats == {"csv", "parquet"}
\* the results_format arguments a constructor is given
GivenFormats == Formats \cup {"CSV", "Parquet", "json"}
\* str.lower() on those arguments
AsGiven(s) == s
Lower(s) ==
  CASE s = "CSV" -> "csv"
    [] s = "Parquet" -> "parquet"
    [] OTHER -> s
NoCtor == [called |-> FALSE]
FuncNames == {"slow"}
Results == {"r"}
ArgValues == {<<"7">>}
\* strings are sequences of characters; "7" stands for any digit
ExcMessages == {<<"e", "7">>}
\* ZeroDivisionError derives from Exception, KeyboardInterrupt only from
\* BaseException
ExcTypes == {"ZeroDivisionError", "KeyboardInterrupt"}
Exceptions == [type : ExcTypes, msg : ExcMessages]
Outcomes == [kind : {"return"}, value : Results, took : Durations]
              \cup [kind : {"raise"}, exc : Exceptions]

IsException(type) == type = "ZeroDivisionError"

\* monitoring.py:16-23
sanitizer(s) == [i \in 1..Len(s) |-> IF s[i] = "7" THEN "*" ELSE s[i]]

\* the header both results stores are created with
TimingColumns ==
  << "Timestamp", "UUID", "Function Name", "Execution Time (s)",
     "CPU Time (sec)", "Memory Change (MB)", "Final Memory Usage (MB)",
     "Arguments", "Log Message" >>

ErrorColumns ==
  << "Timestamp", "UUID", "Function Name", "Error Message", "Arguments" >>

VARIABLES
  timers,        \* Timer instances: the fields __init__ sets
  catchers,      \* ErrorCatcher instances
  fileLock,      \* Timer.file_lock: the producer that holds it, or Free
  rootHandlers,  \* handlers attached to the root logger
  errHandlers,   \* handlers attached to the "error_catcher" logger
  files,         \* the results stores, by path
  rootLog,       \* records handled by the root logger, in order
  errLog,        \* records handled by the "error_catcher" logger, in order
  pc,            \* position of each producer inside a wrapped call
  inv,           \* locals of each producer's current invocation
  nextUuid,      \* uuid.uuid4(): never returns a value twice
  fCalls         \* how many times each producer's wrapper has invoked f

timerVars == << timers, catchers, fileLock, rootHandlers, errHandlers, files,
                rootLog, errLog, pc, inv, nextUuid, fCalls >>

VARIABLES
  logQueue,      \* logging_backend._log_queue: a queue, or NoQueue
  writerProcess, \* logging_backend._writer_process: a writer, or NoWriter
  queues,        \* the items of every multiprocessing.Queue created so far
  writers,       \* every writer process started so far: its state and file
  logStore,      \* the lines written to each log file, with their writer
  fallbackLog,   \* records handled by the "pymaap" console logger
  mainPc,        \* position of the thread that initialises and shuts down
  nextRecord,    \* the next LogRecord that log_event builds
  shutdowns      \* how many times shutdown has been called

relayVars == << logQueue, writerProcess, queues, writers, logStore, fallbackLog,
                mainPc, nextRecord, shutdowns >>

VARIABLES
  logLines,      \* the lines of timing.log that the metrics calls produce
  metricsOut,    \* the metrics dicts get_metrics_start has returned
  metricsEnd,    \* the metrics dicts get_metrics_end has returned, in order
  nextCallId,    \* uuid.uuid4() of the metrics calls
  perfLast       \* the last reading of time.perf_counter()

metricsVars == << logLines, metricsOut, metricsEnd, nextCallId, perfLast >>

VARIABLES
  logFile,       \* the lines of the timing.log* files in logdir, in order
  run,           \* what the last run of analysis() did, or NoRun
  stamps,        \* the timestamps of the log lines handed to the detector
  dense          \* what the last detect_recent_dense_block call returned

analysisVars == << logFile, run, stamps, dense >>

VARIABLES
  argsRow        \* the Arguments field of the first results row written, or NoRow

argsVars == << argsRow >>

VARIABLES
  ctor           \* the constructor call made last and what it raised, or NoCtor

ctorVars == << ctor >>

VARIABLES
  glHandlers,    \* logger.handlers of the logger init_general_logger configures
  glFilters,     \* logger.filters of that logger
  glText,        \* the lines of logs/general.log
  glJson,        \* the lines of logs/general.json.log
  glConsole,     \* the lines printed to the console
  glInits,       \* how many times init_general_logger has been called
  glNextRecord,  \* the next LogRecord a log call makes
  glNextUuid     \* uuid.uuid4(): never returns a value twice

loggerVars == << glHandlers, glFilters, glText, glJson, glConsole, glInits,
                 glNextRecord, glNextUuid >>

\* ------------------------------------------------------------ file paths
\* Timer.__init__ : monitoring.py:57-62
TimerResultsFile(fmt) ==
  IF fmt = "csv" THEN "logs/timing_results.csv" ELSE "logs/timing_results.parquet"

\* ErrorCatcher.__init__ : monitoring.py:289-294
ErrorResultsFile(fmt) ==
  IF fmt = "csv" THEN "logs/error_results.csv" ELSE "logs/error_results.parquet"

Paths == { TimerResultsFile(f) : f \in Formats } \cup { ErrorResultsFile(f) : f \in Formats }

\* ------------------------------------------------------------ the locks
\* `if self.use_multiprocessing and self.file_lock` : monitoring.py:74, 156,
\* 164, 259
UsesLock(t) == timers[t].use_multiprocessing

\* multiprocessing.Lock is not re-entrant: acquire blocks while anyone,
\* the caller included, holds it
CanAcquire(t) == fileLock[t] = Free

\* ----------------------------------------------------- creating the files
\* Timer._create_files_if_needed : monitoring.py:80-110
CreateTimerFiles(fs, fmt) ==
  LET path == TimerResultsFile(fmt)
  IN  IF fs[path].exists
        THEN fs
        ELSE [fs EXCEPT ![path] =
                [exists |-> TRUE, kind |-> fmt, header |-> TimingColumns, rows |-> << >>]]

\* ErrorCatcher._ensure_error_file : monitoring.py:305-312
CreateErrorFile(fs, fmt) ==
  LET path == ErrorResultsFile(fmt)
  IN  IF fmt = "csv" /\ ~fs[path].exists
        THEN [fs EXCEPT ![path] =
                [exists |-> TRUE, kind |-> "csv", header |-> ErrorColumns, rows |-> << >>]]
        ELSE fs

\* Timer._setup_logging : monitoring.py:112-144
SetupLogging(handlers, mp) ==
  IF handlers # << >>
    THEN handlers
    ELSE IF mp THEN << "queue" >> ELSE << "rotating", "console" >>

\* ErrorCatcher._setup_error_logging : monitoring.py:314-326
SetupErrorLogging(c, toFile) ==
  IF toFile THEN << [kind |-> "rotating", owner |-> c] >> ELSE << >>

\* Timer.__init__ : monitoring.py:43-70
TimerInit(t, mp, fmt, toFile) ==
  /\ ~timers[t].made
  /\ \A u \in Timers : u < t => timers[u].made
  /\ IF Lower(fmt) \in Formats
       THEN /\ timers' = [timers EXCEPT ![t] =
                  [made |-> TRUE, use_multiprocessing |-> mp, results_format |-> Lower(fmt),
                   log_to_file |-> toFile]]
            /\ fileLock' = [fileLock EXCEPT ![t] = Free]
            /\ files' = CreateTimerFiles(files, Lower(fmt))
            /\ rootHandlers' = SetupLogging(rootHandlers, mp)
            /\ ctor' = [called |-> TRUE, wrapper |-> "timer", results_format |-> fmt,
                        raised |-> "no"]
       ELSE /\ ctor' = [called |-> TRUE, wrapper |-> "timer", results_format |-> fmt,
                        raised |-> "ValueError"]
            /\ UNCHANGED << timers, fileLock, files, rootHandlers >>
  /\ UNCHANGED << catchers, errHandlers, rootLog, errLog, pc, inv, nextUuid, fCalls >>
  /\ UNCHANGED << relayVars, metricsVars, analysisVars, argsVars, loggerVars >>

\* ErrorCatcher.__init__ : monitoring.py:278-303
CatcherInit(c, fmt, toFile, sanitize) ==
  /\ ~catchers[c].made
  /\ \A d \in Catchers : d < c => catchers[d].made
  /\ IF Lower(fmt) \in Formats
       THEN /\ catchers' = [catchers EXCEPT ![c] =
                  [made |-> TRUE, results_format |-> Lower(fmt), log_to_file |-> toFile,
                   sanitize_func |-> sanitize]]
            /\ files' = CreateErrorFile(files, Lower(fmt))
            /\ errHandlers' = SetupErrorLogging(c, toFile)
            /\ ctor' = [called |-> TRUE, wrapper |-> "catcher", results_format |-> fmt,
                        raised |-> "no"]
       ELSE /\ ctor' = [called |-> TRUE, wrapper |-> "catcher", results_format |-> fmt,
                        raised |-> "ValueError"]
            /\ UNCHANGED << catchers, files, errHandlers >>
  /\ UNCHANGED << timers, fileLock, rootHandlers, rootLog, errLog, pc, inv, nextUuid, fCalls >>
  /\ UNCHANGED << relayVars, metricsVars, analysisVars, argsVars, loggerVars >>

\* ------------------------------------------------------------ log records
\* the record with a uuid of its own instead of the call's
ExecutedRecordOwnUuid(fname, uuid, handlers) ==
  [level |-> "INFO", kind |-> "executed", function |-> fname, uuid |-> uuid + NumProducers,
   text |-> << >>, handlers |-> handlers]

\* logging.info(log_message, extra=...) : monitoring.py:255
ExecutedRecord(fname, uuid, handlers) ==
  [level |-> "INFO", kind |-> "executed", function |-> fname, uuid |-> uuid,
   text |-> << >>, handlers |-> handlers]

\* logging.exception("Function `%s` raised an exception", ...) :
\* monitoring.py:217-218, 383-386
ExceptionRecord(fname, uuid, text, handlers) ==
  [level |-> "ERROR", kind |-> "exception", function |-> fname, uuid |-> uuid,
   text |-> text, handlers |-> handlers]

\* ------------------------------------------------------------ result rows
\* Timer._save_results : monitoring.py:148-152
TimingRow(p, i) ==
  << <<"timestamp">>, <<"process_id", p>>, <<"thread_count">>,
     <<"call_uuid", i.uuid>>, <<"function_name", i.fname>>,
     <<"elapsed_time", i.outcome.took>>, <<"cpu_time">>, <<"mem_change">>,
     <<"final_mem">>, <<"args_repr", i.args>>, <<"log_message", i.fname>> >>

ColumnIndex(header, name) == CHOOSE n \in 1..Len(header) : header[n] = name
ColumnNames(header) == { header[n] : n \in 1..Len(header) }

\* Timer._write_parquet : monitoring.py:178-188, and the dict of
\* ErrorCatcher._save_error : monitoring.py:347-353
RowDict(header, row) == [name \in ColumnNames(header) |-> row[ColumnIndex(header, name)]]

\* ErrorCatcher._save_error : monitoring.py:345, 347-353
ErrorRow(i, error_msg) ==
  << <<"timestamp">>, <<"call_uuid", i.uuid>>, <<"function_name", i.fname>>,
     <<"error_msg", error_msg>>, <<"args_repr", i.args>> >>

\* what is stored for one row: csv.writer.writerow(row) writes every field
\* of the list, the parquet paths store a dict keyed by column name
StoredRow(wrapper, fmt, row) ==
  IF fmt = "parquet"
    THEN RowDict(IF wrapper = "timer" THEN TimingColumns ELSE ErrorColumns, row)
    ELSE row

\* the value df[name] holds for a stored row, read back as the tests do:
\* pd.read_parquet gives the stored column; pd.read_csv, given a line with
\* more fields than the header has columns, takes the surplus leading
\* fields as the index and lays the header over the fields that follow :
\* tests/test_monitoring.py:44, 52
Column(file, row, name) ==
  IF file.kind = "csv"
    THEN row[ColumnIndex(file.header, name) + (Len(row) - Len(file.header))]
    ELSE row[name]

\* -------------------------------------------------------- wrapped calls
Wrapper(p) == inv[p].wrapper
TimerOf(p) == timers[inv[p].inst]
CatcherOf(p) == catchers[inv[p].inst]

FormatOf(p) ==
  IF Wrapper(p) = "timer" THEN TimerOf(p).results_format ELSE CatcherOf(p).results_format

PathOf(p) ==
  IF Wrapper(p) = "timer" THEN TimerResultsFile(FormatOf(p)) ELSE ErrorResultsFile(FormatOf(p))

\* Timer.__call__.wrapper : monitoring.py:207-215 (up to the call of func)
TimerCall(p, t, fn, args) ==
  /\ pc[p] = "idle"
  /\ timers[t].made
  /\ inv' = [inv EXCEPT ![p] =
        [NoCall EXCEPT !.wrapper = "timer", !.inst = t, !.fname = fn, !.args = args,
                       !.fargs = args, !.uuid = nextUuid]]
  /\ nextUuid' = nextUuid + 1
  /\ fCalls' = [fCalls EXCEPT ![p] = @ + 1]
  /\ pc' = [pc EXCEPT ![p] = "in_f"]
  /\ UNCHANGED << timers, catchers, fileLock, rootHandlers, errHandlers, files, rootLog, errLog >>
  /\ UNCHANGED << relayVars, metricsVars, analysisVars, argsVars, ctorVars, loggerVars >>

\* ErrorCatcher.__call__.wrapper : monitoring.py:370-373
CatcherCall(p, c, fn, args) ==
  /\ pc[p] = "idle"
  /\ catchers[c].made
  /\ inv' = [inv EXCEPT ![p] =
        [NoCall EXCEPT !.wrapper = "catcher", !.inst = c, !.fname = fn, !.args = args,
                       !.fargs = args, !.uuid = nextUuid]]
  /\ nextUuid' = nextUuid + 1
  /\ fCalls' = [fCalls EXCEPT ![p] = @ + 1]
  /\ pc' = [pc EXCEPT ![p] = "in_f"]
  /\ UNCHANGED << timers, catchers, fileLock, rootHandlers, errHandlers, files, rootLog, errLog >>
  /\ UNCHANGED << relayVars, metricsVars, analysisVars, argsVars, ctorVars, loggerVars >>

\* which exceptions `except Exception` catches : monitoring.py:216, 374
Caught(exc) == IsException(exc.type)

\* Timer.__call__.wrapper, the except clause : monitoring.py:216-219
TimerExcept(p, o) ==
  /\ pc[p] = "in_f"
  /\ Wrapper(p) = "timer"
  /\ o.kind = "raise"
  /\ rootLog' = IF Caught(o.exc)
                  THEN Append(rootLog,
                         ExceptionRecord(inv[p].fname, inv[p].uuid, << >>, rootHandlers))
                  ELSE rootLog
  /\ inv' = [inv EXCEPT ![p].outcome = o, ![p].final = o]
  /\ pc' = [pc EXCEPT ![p] = "raised"]
  /\ UNCHANGED << timers, catchers, fileLock, rootHandlers, errHandlers, files, errLog,
                  nextUuid, fCalls >>
  /\ UNCHANGED << relayVars, metricsVars, analysisVars, argsVars, ctorVars, loggerVars >>

\* where the wrapper goes after logging : monitoring.py:258, 265
AfterLog(t) == IF timers[t].log_to_file THEN "save" ELSE "returned"

\* Timer.__call__.wrapper, after func returned : monitoring.py:221-255
TimerLog(p, o) ==
  /\ pc[p] = "in_f"
  /\ Wrapper(p) = "timer"
  /\ o.kind = "return"
  /\ rootLog' = Append(rootLog, ExecutedRecord(inv[p].fname, inv[p].uuid, rootHandlers))
  /\ pc' = [pc EXCEPT ![p] = AfterLog(inv[p].inst)]
  /\ inv' = [inv EXCEPT ![p].outcome = o,
                         ![p].final = IF AfterLog(inv[p].inst) = "returned" THEN o ELSE @]
  /\ UNCHANGED << timers, catchers, fileLock, rootHandlers, errHandlers, files, errLog,
                  nextUuid, fCalls >>
  /\ UNCHANGED << relayVars, metricsVars, analysisVars, argsVars, ctorVars, loggerVars >>

\* Timer.__call__.wrapper, `with self.file_lock:` : monitoring.py:259-263
WrapperLock(p) ==
  /\ pc[p] = "save"
  /\ IF UsesLock(inv[p].inst)
       THEN /\ CanAcquire(inv[p].inst)
            /\ fileLock' = [fileLock EXCEPT ![inv[p].inst] = p]
       ELSE UNCHANGED fileLock
  /\ pc' = [pc EXCEPT ![p] = "save_results"]
  /\ UNCHANGED << timers, catchers, rootHandlers, errHandlers, files, rootLog, errLog,
                  inv, nextUuid, fCalls >>
  /\ UNCHANGED << relayVars, metricsVars, analysisVars, argsVars, ctorVars, loggerVars >>

\* Timer._save_results, the row and `with self.file_lock:` :
\* monitoring.py:146-168
SaveResults(p) ==
  /\ pc[p] = "save_results"
  /\ IF UsesLock(inv[p].inst)
       THEN /\ CanAcquire(inv[p].inst)
            /\ fileLock' = [fileLock EXCEPT ![inv[p].inst] = p]
       ELSE UNCHANGED fileLock
  /\ inv' = [inv EXCEPT ![p].row = TimingRow(p, inv[p])]
  /\ pc' = [pc EXCEPT ![p] = "write"]
  /\ UNCHANGED << timers, catchers, rootHandlers, errHandlers, files, rootLog, errLog,
                  nextUuid, fCalls >>
  /\ UNCHANGED << relayVars, metricsVars, analysisVars, argsVars, ctorVars, loggerVars >>

\* Timer._write_csv : monitoring.py:170-174, and the csv branch of
\* ErrorCatcher._save_error : monitoring.py:342-345
WriteCsv(p) ==
  /\ pc[p] = "write"
  /\ FormatOf(p) = "csv"
  /\ files' = [files EXCEPT ![PathOf(p)].rows =
                 Append(@, StoredRow(Wrapper(p), "csv", inv[p].row))]
  /\ pc' = [pc EXCEPT ![p] = "written"]
  /\ UNCHANGED << timers, catchers, fileLock, rootHandlers, errHandlers, rootLog, errLog,
                  inv, nextUuid, fCalls >>
  /\ UNCHANGED << relayVars, metricsVars, analysisVars, argsVars, ctorVars, loggerVars >>

\* pd.read_parquet(self.RESULTS_FILE) : monitoring.py:191-197, 355-360
ReadParquet(p) ==
  /\ pc[p] = "write"
  /\ FormatOf(p) = "parquet"
  /\ inv' = [inv EXCEPT ![p].existing = files[PathOf(p)]]
  /\ pc' = [pc EXCEPT ![p] = "rewrite"]
  /\ UNCHANGED << timers, catchers, fileLock, rootHandlers, errHandlers, files, rootLog,
                  errLog, nextUuid, fCalls >>
  /\ UNCHANGED << relayVars, metricsVars, analysisVars, argsVars, ctorVars, loggerVars >>

\* a concat with the store as it is when the rewrite happens
CombinedFresh(wrapper, existing, row) ==
  LET path == IF wrapper = "timer" THEN TimerResultsFile("parquet")
                                   ELSE ErrorResultsFile("parquet")
  IN  IF files[path].exists
        THEN [files[path] EXCEPT !.rows = Append(@, StoredRow(wrapper, "parquet", row))]
        ELSE [exists |-> TRUE, kind |-> "parquet",
              header |-> IF wrapper = "timer" THEN TimingColumns ELSE ErrorColumns,
              rows |-> << StoredRow(wrapper, "parquet", row) >>]

\* pd.concat([df_existing, df_new]) or pd.DataFrame([row]) :
\* monitoring.py:193-197, 357-360
Combined(wrapper, existing, row) ==
  IF existing.exists
    THEN [existing EXCEPT !.rows = Append(@, StoredRow(wrapper, "parquet", row))]
    ELSE [exists |-> TRUE, kind |-> "parquet",
          header |-> IF wrapper = "timer" THEN TimingColumns ELSE ErrorColumns,
          rows |-> << StoredRow(wrapper, "parquet", row) >>]

\* df_combined.to_parquet(self.RESULTS_FILE) : monitoring.py:199, 361
RewriteParquet(p) ==
  /\ pc[p] = "rewrite"
  /\ files' = [files EXCEPT ![PathOf(p)] = Combined(Wrapper(p), inv[p].existing, inv[p].row)]
  /\ pc' = [pc EXCEPT ![p] = "written"]
  /\ UNCHANGED << timers, catchers, fileLock, rootHandlers, errHandlers, rootLog, errLog,
                  inv, nextUuid, fCalls >>
  /\ UNCHANGED << relayVars, metricsVars, analysisVars, argsVars, ctorVars, loggerVars >>

\* leaving `with self.file_lock:` in _save_results : monitoring.py:157-158,
\* 165-166
SaveResultsUnlock(p) ==
  /\ pc[p] = "written"
  /\ Wrapper(p) = "timer"
  /\ fileLock' = IF UsesLock(inv[p].inst) THEN [fileLock EXCEPT ![inv[p].inst] = Free]
                                          ELSE fileLock
  /\ pc' = [pc EXCEPT ![p] = "saved"]
  /\ UNCHANGED << timers, catchers, rootHandlers, errHandlers, files, rootLog, errLog,
                  inv, nextUuid, fCalls >>
  /\ UNCHANGED << relayVars, metricsVars, analysisVars, argsVars, ctorVars, loggerVars >>

\* leaving `with self.file_lock:` in the wrapper, `return result` :
\* monitoring.py:260-265
WrapperUnlock(p) ==
  /\ pc[p] = "saved"
  /\ fileLock' = IF UsesLock(inv[p].inst) THEN [fileLock EXCEPT ![inv[p].inst] = Free]
                                          ELSE fileLock
  /\ inv' = [inv EXCEPT ![p].final = inv[p].outcome]
  /\ pc' = [pc EXCEPT ![p] = "returned"]
  /\ UNCHANGED << timers, catchers, rootHandlers, errHandlers, files, rootLog, errLog,
                  nextUuid, fCalls >>
  /\ UNCHANGED << relayVars, metricsVars, analysisVars, argsVars, ctorVars, loggerVars >>

\* ErrorCatcher.__call__.wrapper, `return func(*args, **kwargs)` :
\* monitoring.py:373
CatcherReturn(p, o) ==
  /\ pc[p] = "in_f"
  /\ Wrapper(p) = "catcher"
  /\ \/ o.kind = "return"
     \/ o.kind = "raise" /\ ~Caught(o.exc)
  /\ inv' = [inv EXCEPT ![p].outcome = o, ![p].final = o]
  /\ pc' = [pc EXCEPT ![p] = IF o.kind = "return" THEN "returned" ELSE "raised"]
  /\ UNCHANGED << timers, catchers, fileLock, rootHandlers, errHandlers, files, rootLog,
                  errLog, nextUuid, fCalls >>
  /\ UNCHANGED << relayVars, metricsVars, analysisVars, argsVars, ctorVars, loggerVars >>

\* error_msg = str(e), sanitized if a sanitize_func is set :
\* monitoring.py:376-378
ErrorMsg(c, exc) == IF catchers[c].sanitize_func THEN sanitizer(exc.msg) ELSE exc.msg

\* ErrorCatcher.__call__.wrapper, the except clause up to the call of
\* _save_error : monitoring.py:374-387
CatcherExcept(p, o) ==
  /\ pc[p] = "in_f"
  /\ Wrapper(p) = "catcher"
  /\ o.kind = "raise"
  /\ Caught(o.exc)
  /\ errLog' = Append(errLog,
        ExceptionRecord(inv[p].fname, inv[p].uuid, ErrorMsg(inv[p].inst, o.exc),
                        errHandlers \o rootHandlers))
  /\ inv' = [inv EXCEPT ![p].outcome = o,
                         ![p].row = ErrorRow(inv[p], ErrorMsg(inv[p].inst, o.exc))]
  /\ pc' = [pc EXCEPT ![p] = "write"]
  /\ UNCHANGED << timers, catchers, fileLock, rootHandlers, errHandlers, files, rootLog,
                  nextUuid, fCalls >>
  /\ UNCHANGED << relayVars, metricsVars, analysisVars, argsVars, ctorVars, loggerVars >>

\* raising a new exception built from the sanitized text
ReraisedSanitized(outcome) == [outcome EXCEPT !.exc.msg = sanitizer(@)]

\* the exception the except clause re-raises : monitoring.py:388
Reraised(outcome) == outcome

\* ErrorCatcher.__call__.wrapper, `raise` : monitoring.py:388
CatcherReraise(p) ==
  /\ pc[p] = "written"
  /\ Wrapper(p) = "catcher"
  /\ inv' = [inv EXCEPT ![p].final = Reraised(inv[p].outcome)]
  /\ pc' = [pc EXCEPT ![p] = "raised"]
  /\ UNCHANGED << timers, catchers, fileLock, rootHandlers, errHandlers, files, rootLog,
                  errLog, nextUuid, fCalls >>
  /\ UNCHANGED << relayVars, metricsVars, analysisVars, argsVars, ctorVars, loggerVars >>

\* ============================================================ the relay
\* pymaap/logging_backend.py
NoQueue == 0
NoWriter == 0
LogFiles == {"logs/timing.log", "logs/other.log"}
StopItem == [kind |-> "STOP"]
RecordItem(n) == [kind |-> "record", id |-> n]

\* init_multiprocessing_logging : logging_backend.py:38-48
init_multiprocessing_logging(log_file) ==
  /\ mainPc \in {"idle", "shutdown_done"}
  /\ Len(writers) < MaxInits
  /\ queues' = Append(queues, << >>)
  /\ logQueue' = Len(queues) + 1
  /\ writers' = Append(writers, [state |-> "running", file |-> log_file])
  /\ writerProcess' = Len(writers) + 1
  /\ mainPc' = "idle"
  /\ UNCHANGED << logStore, fallbackLog, nextRecord, shutdowns >>
  /\ UNCHANGED << timerVars, metricsVars, analysisVars, argsVars, ctorVars, loggerVars >>

\* where log_event sends a record : logging_backend.py:64, 78-87
Enqueues(queue) == queue # NoQueue

\* log_event : logging_backend.py:60-87
log_event ==
  /\ nextRecord <= MaxRecords
  /\ nextRecord' = nextRecord + 1
  /\ IF Enqueues(logQueue)
       THEN /\ queues' = [queues EXCEPT ![logQueue] = Append(@, RecordItem(nextRecord))]
            /\ UNCHANGED fallbackLog
       ELSE /\ fallbackLog' = Append(fallbackLog, RecordItem(nextRecord))
            /\ UNCHANGED queues
  /\ UNCHANGED << logQueue, writerProcess, writers, logStore, mainPc, shutdowns >>
  /\ UNCHANGED << timerVars, metricsVars, analysisVars, argsVars, ctorVars, loggerVars >>

\* shutdown_multiprocessing_logging, `_log_queue.put("STOP")` :
\* logging_backend.py:50-53
shutdown_put ==
  /\ mainPc \in {"idle", "shutdown_done"}
  /\ shutdowns < MaxShutdowns
  /\ shutdowns' = shutdowns + 1
  /\ queues' = IF logQueue # NoQueue
                 THEN [queues EXCEPT ![logQueue] = Append(@, StopItem)]
                 ELSE queues
  /\ mainPc' = "joining"
  /\ UNCHANGED << logQueue, writerProcess, writers, logStore, fallbackLog, nextRecord >>
  /\ UNCHANGED << timerVars, metricsVars, analysisVars, argsVars, ctorVars, loggerVars >>

\* shutdown_multiprocessing_logging, `_writer_process.join()` :
\* logging_backend.py:54-55
shutdown_join ==
  /\ mainPc = "joining"
  /\ writerProcess # NoWriter => writers[writerProcess].state = "terminated"
  /\ mainPc' = "shutdown_done"
  /\ UNCHANGED << logQueue, writerProcess, queues, writers, logStore, fallbackLog,
                  nextRecord, shutdowns >>
  /\ UNCHANGED << timerVars, metricsVars, analysisVars, argsVars, ctorVars, loggerVars >>

\* _writer_worker, one turn of its loop : logging_backend.py:32-36
writer_worker(k) ==
  /\ writers[k].state = "running"
  /\ queues[k] # << >>
  /\ queues' = [queues EXCEPT ![k] = Tail(@)]
  /\ IF Head(queues[k]) = StopItem
       THEN /\ writers' = [writers EXCEPT ![k].state = "terminated"]
            /\ UNCHANGED logStore
       ELSE /\ logStore' = [logStore EXCEPT ![writers[k].file] =
                              Append(@, [record |-> Head(queues[k]), by |-> k])]
            /\ UNCHANGED writers
  /\ UNCHANGED << logQueue, writerProcess, fallbackLog, mainPc, nextRecord, shutdowns >>
  /\ UNCHANGED << timerVars, metricsVars, analysisVars, argsVars, ctorVars, loggerVars >>

RelayInitState ==
  /\ logQueue = NoQueue
  /\ writerProcess = NoWriter
  /\ queues = << >>
  /\ writers = << >>
  /\ logStore = [f \in LogFiles |-> << >>]
  /\ fallbackLog = << >>
  /\ mainPc = "idle"
  /\ nextRecord = 1
  /\ shutdowns = 0

RelayNext ==
  \/ \E f \in LogFiles : init_multiprocessing_logging(f)
  \/ log_event
  \/ shutdown_put
  \/ shutdown_join
  \/ \E k \in 1..Len(writers) : writer_worker(k)

\* ===================================================== the metrics calls
\* monitoring.py:391-469 and pymaap/analysis.py:91-160
\* function names are strings over these characters; " " stands for any
\* whitespace
Separators == {" ", ":"}
Names == { <<"g">>, <<"f", ":">> }
NoName == << "None" >>
\* clock readings are counted in thirds of 1e-4 second; the readings of
\* the performance counter are taken two thirds apart
PerfTimes == { 2 * k : k \in 0..MaxPerf }
WallTimes == 0..MaxWall

\* get_caller_name : monitoring.py:392-395
get_caller_name == <<"g">>

\* "%.4f" : monitoring.py:426, 449
Format4(x) == (x + 1) \div 3

\* the timestamp monitoring.JSONFormatter writes, logging's default
\* "%Y-%m-%d %H:%M:%S" followed by ",%03d" : monitoring.py:28
FormatTime(wall) == [sep |-> ",", at |-> wall]

\* the message of get_metrics_start : monitoring.py:425-429
StartMessage(func_name, wall, perf, call_id) ==
  [name |-> func_name, type |-> "start", wall |-> Format4(wall), perf |-> Format4(perf),
   id |-> call_id, duration |-> << >>]

\* the message of a later call with an id of its own
EndMessageOwnId(func_name, wall, perf, call_id, duration) ==
  [name |-> func_name, type |-> "end", wall |-> Format4(wall), perf |-> Format4(perf),
   id |-> call_id + MaxStarts, duration |-> << Format4(duration) >>]

\* the message of get_metrics_end : monitoring.py:448-452
EndMessage(func_name, wall, perf, call_id, duration) ==
  [name |-> func_name, type |-> "end", wall |-> Format4(wall), perf |-> Format4(perf),
   id |-> call_id, duration |-> << Format4(duration) >>]

\* get_metrics_start : monitoring.py:397-431
get_metrics_start(func_name, wall, perf) ==
  LET name == IF func_name = NoName THEN get_caller_name ELSE func_name
  IN  /\ Cardinality(metricsOut) < MaxStarts
      /\ Len(logLines) < MaxLines
      /\ perf >= perfLast
      /\ perfLast' = perf
      /\ nextCallId' = nextCallId + 1
      /\ metricsOut' = metricsOut \cup
            { [func |-> name, id |-> nextCallId, wall_start |-> wall, perf_start |-> perf] }
      /\ logLines' = Append(logLines,
            [timestamp |-> FormatTime(wall),
             message |-> StartMessage(name, wall, perf, nextCallId)])
      /\ UNCHANGED metricsEnd
      /\ UNCHANGED << timerVars, relayVars, analysisVars, argsVars, ctorVars, loggerVars >>

\* get_metrics_end : monitoring.py:433-469
get_metrics_end(metrics_start, func_name, wall, perf) ==
  LET name == IF func_name = NoName THEN metrics_start.func ELSE func_name
  IN  /\ Len(logLines) < MaxLines
      /\ perf >= perfLast
      /\ perfLast' = perf
      /\ logLines' = Append(logLines,
            [timestamp |-> FormatTime(wall),
             message |-> EndMessage(name, wall, perf, metrics_start.id,
                                    perf - metrics_start.perf_start)])
      /\ metricsEnd' = Append(metricsEnd,
            [func |-> name, id |-> metrics_start.id, wall_end |-> wall, perf_end |-> perf,
             duration |-> perf - metrics_start.perf_start])
      /\ UNCHANGED << metricsOut, nextCallId >>
      /\ UNCHANGED << timerVars, relayVars, analysisVars, argsVars, ctorVars, loggerVars >>

\* the name the pattern's (?P<func>[^\s:]+) captures: the longest run of
\* characters other than whitespace and colon that ends the name, because
\* ": start:" or ": end:" must follow it : analysis.py:108-109
RECURSIVE FuncGroup(_)
FuncGroup(name) ==
  IF name = << >> \/ name[Len(name)] \in Separators
    THEN << >>
    ELSE Append(FuncGroup(SubSeq(name, 1, Len(name) - 1)), name[Len(name)])

\* pattern.search(line["message"]) : analysis.py:108-119
Match(message) ==
  IF FuncGroup(message.name) = << >>
    THEN [matched |-> FALSE]
    ELSE [matched |-> TRUE, func |-> FuncGroup(message.name), type |-> message.type,
          wall |-> message.wall, perf |-> message.perf, id |-> message.id,
          duration |-> message.duration]

\* datetime.strptime(line["timestamp"], "%Y-%m-%d %H:%M:%S,%f") :
\* analysis.py:105, 130
StrptimeFails(timestamp) == timestamp.sep # ","

\* the time-window filter : analysis.py:103-106
InWindow(line, start_time, end_time) ==
  start_time <= line.timestamp.at /\ line.timestamp.at <= end_time

\* an execution_data that keeps the first entry of a phase for a key
StoreFirst(data, key, type, parsed) ==
  IF \E n \in 1..Len(data) : data[n].key = key
    THEN [n \in 1..Len(data) |->
            IF data[n].key = key /\ type \notin DOMAIN data[n].event
              THEN [data[n] EXCEPT !.event = [t \in DOMAIN @ \cup {type} |->
                                                IF t = type THEN parsed ELSE @[t]]]
              ELSE data[n]]
    ELSE Append(data, [key |-> key, event |-> [t \in {type} |-> parsed]])

\* execution_data[key][d["type"]] = parsed : analysis.py:120-134
\* execution_data is kept as a sequence of entries in insertion order
Store(data, key, type, parsed) ==
  IF \E n \in 1..Len(data) : data[n].key = key
    THEN [n \in 1..Len(data) |->
            IF data[n].key = key
              THEN [data[n] EXCEPT !.event = [t \in DOMAIN @ \cup {type} |->
                                                IF t = type THEN parsed ELSE @[t]]]
              ELSE data[n]]
    ELSE Append(data, [key |-> key, event |-> [t \in {type} |-> parsed]])

\* the loop over the filtered lines : analysis.py:116-134
RECURSIVE ExecutionData(_)
ExecutionData(lines) ==
  IF lines = << >>
    THEN << >>
    ELSE LET rest == ExecutionData(SubSeq(lines, 1, Len(lines) - 1))
             line == lines[Len(lines)]
             d == Match(line.message)
         IN  IF d.matched
               THEN Store(rest, << d.func, d.id >>, d.type,
                          [wall |-> d.wall, perf |-> d.perf, timestamp |-> line.timestamp.at,
                           duration |-> d.duration])
               ELSE rest

\* a row whose Perf Duration is taken from the wall= fields
CallRecordWallPerf(entry) ==
  [Function |-> entry.key[1], CallID |-> entry.key[2],
   StartTime |-> entry.event["start"].timestamp,
   EndTime |-> entry.event["end"].timestamp,
   WallDuration |-> entry.event["end"].wall - entry.event["start"].wall,
   PerfDuration |-> entry.event["end"].wall - entry.event["start"].wall,
   DurationFromLog |-> entry.event["end"].duration]

\* one row of the table : analysis.py:139-157 (the cpu, rss, memory,
\* thread and descriptor columns are copied through like the others)
CallRecord(entry) ==
  [Function |-> entry.key[1], CallID |-> entry.key[2],
   StartTime |-> entry.event["start"].timestamp,
   EndTime |-> entry.event["end"].timestamp,
   WallDuration |-> entry.event["end"].wall - entry.event["start"].wall,
   PerfDuration |-> entry.event["end"].perf - entry.event["start"].perf,
   DurationFromLog |-> entry.event["end"].duration]

\* the entries with both phases : analysis.py:136-138
Paired(data) == SelectSeq(data, LAMBDA e : DOMAIN e.event = {"start", "end"})

\* sort_values("Start Time") : analysis.py:159
RECURSIVE SortByStart(_)
SortByStart(records) ==
  IF records = << >>
    THEN << >>
    ELSE LET sorted == SortByStart(SubSeq(records, 1, Len(records) - 1))
             r == records[Len(records)]
             before == SelectSeq(sorted, LAMBDA x : x.StartTime <= r.StartTime)
             after == SelectSeq(sorted, LAMBDA x : x.StartTime > r.StartTime)
         IN  before \o << r >> \o after

\* parse_log_lines : analysis.py:91-160
parse_log_lines(log_lines, start_time, end_time) ==
  IF \E n \in 1..Len(log_lines) : StrptimeFails(log_lines[n].timestamp)
    THEN [raised |-> "ValueError", records |-> << >>]
    ELSE LET filtered == SelectSeq(log_lines, LAMBDA l : InWindow(l, start_time, end_time))
             paired == Paired(ExecutionData(filtered))
             records == [n \in 1..Len(paired) |-> CallRecord(paired[n])]
         IN  IF records = << >>
               THEN [raised |-> "KeyError", records |-> << >>]
               ELSE [raised |-> "no", records |-> SortByStart(records)]

MetricsNext ==
  \/ \E name \in Names \cup {NoName}, wall \in WallTimes, perf \in PerfTimes :
        get_metrics_start(name, wall, perf)
  \/ \E m \in metricsOut, name \in Names \cup {NoName}, wall \in WallTimes, perf \in PerfTimes :
        get_metrics_end(m, name, wall, perf)

\* ============================================================ the detector
\* pymaap/analysis.py:42-88
\* timestamps are whole seconds
Times == 0..MaxTime
NoDense == [called |-> FALSE]

\* the defaults of detect_recent_dense_block : analysis.py:42
DefaultMinClusterSize == 25
DefaultGapSeconds == 30
\* the number of timestamps of the dense block of the tests :
\* tests/test_analysis.py:20-23
BlockSize == 30
\* a pause longer than the default gap
SplitGap == 2 * DefaultGapSeconds

\* sorted([...]) : analysis.py:63-66
RECURSIVE Sorted(_)
Sorted(ts) ==
  IF ts = << >>
    THEN << >>
    ELSE LET rest == Sorted(SubSeq(ts, 1, Len(ts) - 1))
             t == ts[Len(ts)]
         IN  SelectSeq(rest, LAMBDA x : x <= t) \o << t >> \o SelectSeq(rest, LAMBDA x : x > t)

\* the loop over zip(timestamps, timestamps[1:]) after n - 1 of its turns :
\* analysis.py:71-80. `closed` keeps every value `cluster` had when the
\* else branch replaced it, whether or not it was added to `clusters`
RECURSIVE ClusterLoop(_, _, _, _)
\* the loop splitting at a gap equal to gap_seconds
ClusterLoopStrict(timestamps, n, min_cluster_size, gap_seconds) ==
  IF n = 1
    THEN [clusters |-> << >>, cluster |-> << timestamps[1] >>, closed |-> << >>]
    ELSE LET before == ClusterLoop(timestamps, n - 1, min_cluster_size, gap_seconds)
         IN  IF timestamps[n] - timestamps[n - 1] < gap_seconds
               THEN [before EXCEPT !.cluster = Append(@, timestamps[n])]
               ELSE [clusters |-> IF Len(before.cluster) >= min_cluster_size
                                    THEN Append(before.clusters, before.cluster)
                                    ELSE before.clusters,
                     cluster |-> << timestamps[n] >>,
                     closed |-> Append(before.closed, before.cluster)]

ClusterLoop(timestamps, n, min_cluster_size, gap_seconds) ==
  IF n = 1
    THEN [clusters |-> << >>, cluster |-> << timestamps[1] >>, closed |-> << >>]
    ELSE LET before == ClusterLoop(timestamps, n - 1, min_cluster_size, gap_seconds)
             curr == timestamps[n - 1]
             nxt == timestamps[n]
         IN  IF nxt - curr <= gap_seconds
               THEN [before EXCEPT !.cluster = Append(@, nxt)]
               ELSE [clusters |-> IF Len(before.cluster) >= min_cluster_size
                                    THEN Append(before.clusters, before.cluster)
                                    ELSE before.clusters,
                     cluster |-> << nxt >>,
                     closed |-> Append(before.closed, before.cluster)]

\* the last cluster kept only when larger than min_cluster_size
ClustersStrict(timestamps, min_cluster_size, gap_seconds) ==
  LET loop == ClusterLoop(timestamps, Len(timestamps), min_cluster_size, gap_seconds)
  IN  IF Len(loop.cluster) > min_cluster_size
        THEN Append(loop.clusters, loop.cluster)
        ELSE loop.clusters

\* the last cluster kept whatever its size
ClustersUnfiltered(timestamps, min_cluster_size, gap_seconds) ==
  LET loop == ClusterLoop(timestamps, Len(timestamps), min_cluster_size, gap_seconds)
  IN  Append(loop.clusters, loop.cluster)

\* the clusters after the loop : analysis.py:81-82
Clusters(timestamps, min_cluster_size, gap_seconds) ==
  LET loop == ClusterLoop(timestamps, Len(timestamps), min_cluster_size, gap_seconds)
  IN  IF Len(loop.cluster) >= min_cluster_size
        THEN Append(loop.clusters, loop.cluster)
        ELSE loop.clusters

\* min(most_recent), max(most_recent) : analysis.py:88
Min(cluster) == CHOOSE x \in { cluster[n] : n \in 1..Len(cluster) } :
                  \A n \in 1..Len(cluster) : x <= cluster[n]
Max(cluster) == CHOOSE x \in { cluster[n] : n \in 1..Len(cluster) } :
                  \A n \in 1..Len(cluster) : x >= cluster[n]

\* the detector returning the earliest qualifying cluster
detect_first_dense_block(times, min_cluster_size, gap_seconds) ==
  LET timestamps == Sorted(times)
  IN  IF timestamps = << >>
        THEN [found |-> FALSE]
        ELSE LET clusters == Clusters(timestamps, min_cluster_size, gap_seconds)
             IN  IF clusters = << >>
                   THEN [found |-> FALSE]
                   ELSE [found |-> TRUE, start |-> Min(clusters[1]), end |-> Max(clusters[1])]

\* detect_recent_dense_block on the parsed timestamps : analysis.py:63-88
\* (None, None) is the record with found = FALSE
detect_recent_dense_block(times, min_cluster_size, gap_seconds) ==
  LET timestamps == Sorted(times)
  IN  IF timestamps = << >>
        THEN [found |-> FALSE]
        ELSE LET clusters == Clusters(timestamps, min_cluster_size, gap_seconds)
             IN  IF clusters = << >>
                   THEN [found |-> FALSE]
                   ELSE [found |-> TRUE,
                         start |-> Min(clusters[Len(clusters)]),
                         end |-> Max(clusters[Len(clusters)])]

\* a caller collects one more log line with timestamp t
add_stamp(t) ==
  /\ dense = NoDense
  /\ Len(stamps) < MaxStamps
  /\ stamps' = Append(stamps, t)
  /\ UNCHANGED << dense, logFile, run >>
  /\ UNCHANGED << timerVars, relayVars, metricsVars, argsVars, ctorVars, loggerVars >>

\* the block of the tests, one line a second, with a pause of SplitGap
\* after its first k lines : tests/test_analysis.py:18-27
Block(k) ==
  [n \in 1..BlockSize |-> IF n <= k \/ k = 0 THEN n - 1 ELSE n - 2 + SplitGap]

add_block(k) ==
  /\ dense = NoDense
  /\ stamps = << >>
  /\ stamps' = Block(k)
  /\ UNCHANGED << dense, logFile, run >>
  /\ UNCHANGED << timerVars, relayVars, metricsVars, argsVars, ctorVars, loggerVars >>

\* a call detect_recent_dense_block(log_lines, min_cluster_size, gap_seconds)
detect(min_cluster_size, gap_seconds) ==
  /\ dense = NoDense
  /\ dense' = [called |-> TRUE, min_cluster_size |-> min_cluster_size,
               gap_seconds |-> gap_seconds,
               result |-> detect_recent_dense_block(stamps, min_cluster_size, gap_seconds)]
  /\ UNCHANGED << stamps, logFile, run >>
  /\ UNCHANGED << timerVars, relayVars, metricsVars, argsVars, ctorVars, loggerVars >>

DetectNext ==
  \/ \E t \in Times : add_stamp(t)
  \/ \E k \in 0..(BlockSize - 1) : add_block(k)
  \/ \E m \in (1..MaxCluster) \cup {DefaultMinClusterSize},
        g \in (0..MaxGap) \cup {DefaultGapSeconds} : detect(m, g)

\* ======================================================= the analysis run
\* pymaap/analysis.py:18-39, 277-344
Instants == {0, 1}
CallIds == {1, 2}
\* --start-time / --end-time not given : analysis.py:299-300
None == -1
NoRun == [ran |-> FALSE]

\* the timestamp pymaap.logging_setup.JSONFormatter writes, with a dot
\* before the fraction : logging_setup.py:28-39
SetupFormatTime(at) == [sep |-> ".", at |-> at]
\* a timestamp that is no date at all
NoTime == [sep |-> "?", at |-> 0]

\* a message of the metrics calls : monitoring.py:425-429, 448-452
GrammarMessage(type, id) ==
  IF type = "start"
    THEN StartMessage(<<"g">>, 0, 0, id)
    ELSE EndMessage(<<"g">>, 0, 0, id, 0)
\* any other message, such as Timer's "Function `slow` executed in ..." :
\* monitoring.py:250
PlainMessage ==
  [name |-> << >>, type |-> "text", wall |-> 0, perf |-> 0, id |-> 0, duration |-> << >>]

\* one line of a log file, as json.loads sees it : analysis.py:34
JsonObject(keys, timestamp, message) ==
  [json |-> "object", keys |-> keys, timestamp |-> timestamp, message |-> message]
NotAnObject(kind) ==
  [json |-> kind, keys |-> {}, timestamp |-> NoTime, message |-> PlainMessage]

WellFormedLines ==
  { JsonObject({"timestamp", "message"}, FormatTime(at), GrammarMessage(type, id)) :
      at \in Instants, type \in {"start", "end"}, id \in CallIds }

RawLines ==
  WellFormedLines \cup
  { NotAnObject("invalid"), NotAnObject("number"), NotAnObject("array"),
    JsonObject({"message"}, NoTime, PlainMessage),
    JsonObject({"timestamp", "message"}, NoTime, GrammarMessage("start", 1)),
    JsonObject({"timestamp", "message"}, FormatTime(0), PlainMessage),
    JsonObject({"timestamp", "message"}, SetupFormatTime(0), GrammarMessage("start", 1)) }

\* json.loads(line) raises JSONDecodeError : analysis.py:33-38
JSONDecodeError(line) == line.json = "invalid"
\* `"timestamp" in record` raises TypeError for a number, true, false or
\* null; for a list or a string it is a membership test : analysis.py:35
InRaises(line) == line.json = "number"
Admitted(line) ==
  ~JSONDecodeError(line) /\ "timestamp" \in line.keys /\ "message" \in line.keys

\* load_all_log_lines : analysis.py:18-39
load_all_log_lines(file) ==
  IF \E n \in 1..Len(file) : InRaises(file[n])
    THEN [raised |-> "TypeError", log_lines |-> << >>]
    ELSE [raised |-> "no", log_lines |-> SelectSeq(file, Admitted)]

\* what a run of analysis() leaves behind
Ended(raised, warning, consulted, outdir, written, records) ==
  [raised |-> raised, warning |-> warning, consulted |-> consulted,
   outdir |-> outdir, written |-> written, records |-> records]

\* the files of a completed run : analysis.py:336-343, 192-254, 268
OutputFiles == {"filtered_log_lines.log", "plots", "results.csv",
                "results_aggregate.csv", "README.txt"}

\* analysis() from the parsed window on : analysis.py:323-344
Report(log_lines, start_time, end_time, consulted) ==
  LET parsed == parse_log_lines(log_lines, start_time, end_time)
  IN  IF parsed.raised # "no"
        THEN Ended(parsed.raised, "none", consulted, TRUE, {}, << >>)
        ELSE IF parsed.records = << >>
          THEN Ended("no", "No function calls found in selected time window.",
                     consulted, TRUE, {}, << >>)
          ELSE Ended("no", "none", consulted, TRUE, OutputFiles, parsed.records)

\* an analysis() that makes the output directory before it asks the detector
AnalyseMkdirFirst(log_lines, start_override, end_override) ==
  IF log_lines = << >>
    THEN Ended("no", "No valid log entries found in directory.", FALSE, FALSE, {}, << >>)
    ELSE IF start_override # None /\ end_override # None
      THEN Report(log_lines, start_override, end_override, FALSE)
      ELSE IF \E n \in 1..Len(log_lines) : StrptimeFails(log_lines[n].timestamp)
        THEN Ended("ValueError", "none", TRUE, FALSE, {}, << >>)
        ELSE LET detected == detect_recent_dense_block(
                                [n \in 1..Len(log_lines) |-> log_lines[n].timestamp.at],
                                DefaultMinClusterSize, DefaultGapSeconds)
             IN  IF ~detected.found
                   THEN Ended("no", "Could not detect a recent cluster of calls.",
                              TRUE, TRUE, {}, << >>)
                   ELSE Report(log_lines,
                               IF start_override # None THEN start_override ELSE detected.start,
                               IF end_override # None THEN end_override ELSE detected.end,
                               TRUE)

\* analysis() after the log lines are loaded : analysis.py:294-321
Analyse(log_lines, start_override, end_override) ==
  IF log_lines = << >>
    THEN Ended("no", "No valid log entries found in directory.", FALSE, FALSE, {}, << >>)
    ELSE IF start_override # None /\ end_override # None
      THEN Report(log_lines, start_override, end_override, FALSE)
      ELSE IF \E n \in 1..Len(log_lines) : StrptimeFails(log_lines[n].timestamp)
        THEN Ended("ValueError", "none", TRUE, FALSE, {}, << >>)
        ELSE LET detected == detect_recent_dense_block(
                                [n \in 1..Len(log_lines) |-> log_lines[n].timestamp.at],
                                DefaultMinClusterSize, DefaultGapSeconds)
             IN  IF ~detected.found
                   THEN Ended("no", "Could not detect a recent cluster of calls.",
                              TRUE, FALSE, {}, << >>)
                   ELSE Report(log_lines,
                               IF start_override # None THEN start_override ELSE detected.start,
                               IF end_override # None THEN end_override ELSE detected.end,
                               TRUE)

\* a program appends one line to a timing.log* file of logdir
write_line(line) ==
  /\ ~run.ran
  /\ Len(logFile) < MaxRaw
  /\ logFile' = Append(logFile, line)
  /\ UNCHANGED << run, stamps, dense >>
  /\ UNCHANGED << timerVars, relayVars, metricsVars, argsVars, ctorVars, loggerVars >>

\* analysis(["--logdir", ..., "--start-time", ..., "--end-time", ...]) :
\* analysis.py:277-344
analysis(start_override, end_override) ==
  /\ ~run.ran
  /\ LET loaded == load_all_log_lines(logFile)
     IN  run' = [ran |-> TRUE, start_override |-> start_override,
                 end_override |-> end_override,
                 outcome |-> IF loaded.raised # "no"
                               THEN Ended(loaded.raised, "none", FALSE, FALSE, {}, << >>)
                               ELSE Analyse(loaded.log_lines, start_override, end_override)]
  /\ UNCHANGED << logFile, stamps, dense >>
  /\ UNCHANGED << timerVars, relayVars, metricsVars, argsVars, ctorVars, loggerVars >>

AnalysisNext ==
  \/ \E line \in RawLines : write_line(line)
  \/ \E s \in Instants \cup {None}, e \in Instants \cup {None} : analysis(s, e)

\* the metrics calls that leave the function name to the caller's frame
PerfNext ==
  \/ \E wall \in WallTimes, perf \in PerfTimes : get_metrics_start(NoName, wall, perf)
  \/ \E m \in metricsOut, wall \in WallTimes, perf \in PerfTimes :
        get_metrics_end(m, NoName, wall, perf)

\* ================================================== the argument text
\* monitoring.py:231-248 (Timer) and 328-338, 379-382 (ErrorCatcher)
\* strings are sequences of characters; "7" stands for any digit, "a" for
\* any other ASCII character and "é" for any character outside ASCII
NoRow == [written |-> FALSE]
NoLength == -1
Chars == {"a", "7", "é"}
IsDigit(c) == c = "7"

RECURSIVE TextsOf(_)
TextsOf(n) ==
  IF n = 0
    THEN { << >> }
    ELSE LET shorter == TextsOf(n - 1)
         IN  shorter \cup { Append(t, c) : t \in shorter, c \in Chars }

\* the arguments a call can be given: strings, DataFrames of some number
\* of rows, and objects whose __str__ raises
Values ==
  [kind : {"str"}, text : TextsOf(MaxArgLength)]
    \cup [kind : {"DataFrame"}, rows : 0..MaxRows]
    \cup [kind : {"unprintable"}]

\* keyword names are identifiers: digits are allowed after the first character
KeywordNames == { <<"k">>, <<"k", "7">> }

\* str(n) of a natural number: one digit for every decimal place
RECURSIVE Decimal(_)
Decimal(n) == IF n < 10 THEN << "7" >> ELSE Decimal(n \div 10) \o << "7" >>

\* str(df): a line for the columns, then one line per row that starts with
\* the row's index
RECURSIVE FrameText(_)
FrameText(rows) ==
  IF rows = 0
    THEN << "a" >>
    ELSE FrameText(rows - 1) \o << "\n" >> \o Decimal(rows - 1) \o << "a" >>

\* f"<DataFrame with {len(obj)} rows>" : monitoring.py:234
FrameSummary(rows) == << "<", "a" >> \o Decimal(rows) \o << "a", ">" >>

Unserializable == << "<", "a", ">" >>

\* the try/except around str(obj) : monitoring.py:235-238, 330-333
Str(obj) ==
  CASE obj.kind = "str" -> obj.text
    [] obj.kind = "DataFrame" -> FrameText(obj.rows)
    [] obj.kind = "unprintable" -> Unserializable

\* s[:max_arg_length] + "..." : monitoring.py:241-242, 336-337
Truncated(s, max_arg_length) ==
  IF max_arg_length # NoLength /\ Len(s) > max_arg_length
    THEN SubSeq(s, 1, max_arg_length) \o << ".", ".", "." >>
    ELSE s

Sanitized(s, sanitize_func) == IF sanitize_func THEN sanitizer(s) ELSE s

\* ErrorCatcher._safe_serialize : monitoring.py:328-338
CatcherSafeSerialize(obj, sanitize_func, max_arg_length) ==
  Truncated(Sanitized(Str(obj), sanitize_func), max_arg_length)

\* Timer.__call__.wrapper.safe_serialize : monitoring.py:231-243
safe_serialize(obj, sanitize_func, max_arg_length) ==
  IF obj.kind = "DataFrame"
    THEN FrameSummary(obj.rows)
    ELSE Truncated(Sanitized(Str(obj), sanitize_func), max_arg_length)

\* json.dumps of one character of a string: characters outside ASCII are
\* written as \u and four hexadecimal digits, a newline as \n
Escaped(c) ==
  CASE c = "é" -> << "\\", "u", "7", "7", "a", "7" >>
    [] c = "\n" -> << "\\", "n" >>
    [] OTHER -> << c >>

RECURSIVE JsonString(_)
JsonString(s) ==
  IF s = << >>
    THEN << >>
    ELSE JsonString(SubSeq(s, 1, Len(s) - 1)) \o Escaped(s[Len(s)])

Quoted(s) == << "\"" >> \o JsonString(s) \o << "\"" >>

\* the elements of a list or dict, separated by ", "
RECURSIVE Joined(_)
Joined(items) ==
  IF items = << >>
    THEN << >>
    ELSE IF Len(items) = 1
      THEN items[1]
      ELSE Joined(SubSeq(items, 1, Len(items) - 1)) \o << ",", " " >> \o items[Len(items)]

\* json.dumps({"args": [...], "kwargs": {...}}) : monitoring.py:244-247, 379-382
\* of the serialized values; the keys are written as they are
ArgsRepr(args, kwargs) ==
  << "{" >> \o Quoted(<< "a" >>) \o << ":", " ", "[" >>
    \o Joined([n \in 1..Len(args) |-> Quoted(args[n])])
    \o << "]", ",", " " >> \o Quoted(<< "a" >>) \o << ":", " ", "{" >>
    \o Joined([n \in 1..Len(kwargs) |->
                 Quoted(kwargs[n][1]) \o << ":", " " >> \o Quoted(kwargs[n][2])])
    \o << "}", "}" >>

\* the positional and keyword arguments of one call
ArgLists == { << >> } \cup { << v >> : v \in Values }
KwargLists == { << >> } \cup { << << k, v >> >> : k \in KeywordNames, v \in Values }
MaxArgLengths == { NoLength } \cup 1..MaxArgLength

ArgsInitState == argsRow = NoRow

\* a call through Timer(sanitize_func, max_arg_length, log_to_file=True):
\* the args_repr handed to _save_results : monitoring.py:231-248, 258-262
TimerArguments(sanitize_func, max_arg_length, args, kwargs) ==
  /\ argsRow = NoRow
  /\ argsRow' =
       [written |-> TRUE, wrapper |-> "timer", sanitize_func |-> sanitize_func,
        max_arg_length |-> max_arg_length, args |-> args, kwargs |-> kwargs,
        args_repr |->
          ArgsRepr([n \in 1..Len(args) |-> safe_serialize(args[n], sanitize_func, max_arg_length)],
                   [n \in 1..Len(kwargs) |->
                      << kwargs[n][1],
                         safe_serialize(kwargs[n][2], sanitize_func, max_arg_length) >>])]
  /\ UNCHANGED << timerVars, relayVars, metricsVars, analysisVars, ctorVars, loggerVars >>

\* a failing call through ErrorCatcher(sanitize_func, max_arg_length): the
\* args_repr handed to _save_error : monitoring.py:379-387
CatcherArguments(sanitize_func, max_arg_length, args, kwargs) ==
  /\ argsRow = NoRow
  /\ argsRow' =
       [written |-> TRUE, wrapper |-> "catcher", sanitize_func |-> sanitize_func,
        max_arg_length |-> max_arg_length, args |-> args, kwargs |-> kwargs,
        args_repr |->
          ArgsRepr([n \in 1..Len(args) |->
                      CatcherSafeSerialize(args[n], sanitize_func, max_arg_length)],
                   [n \in 1..Len(kwargs) |->
                      << kwargs[n][1],
                         CatcherSafeSerialize(kwargs[n][2], sanitize_func, max_arg_length) >>])]
  /\ UNCHANGED << timerVars, relayVars, metricsVars, analysisVars, ctorVars, loggerVars >>

ArgsNext ==
  \/ \E sanitize_func \in BOOLEAN, max_arg_length \in MaxArgLengths,
        args \in ArgLists, kwargs \in KwargLists :
        TimerArguments(sanitize_func, max_arg_length, args, kwargs)
  \/ \E sanitize_func \in BOOLEAN, max_arg_length \in MaxArgLengths,
        args \in ArgLists, kwargs \in KwargLists :
        CatcherArguments(sanitize_func, max_arg_length, args, kwargs)

\* ====================================================== the general logger
\* pymaap/logging_setup.py:14-150
\* logging.DEBUG and logging.INFO
DEBUG == 10
INFO == 20
Levels == { DEBUG, INFO }
JsonLogs == { "None", "general.json.log" }

\* the handlers init_general_logger adds, in order : logging_setup.py:107-148
NewHandlers(json_log, console_level) ==
  << [kind |-> "text", level |-> DEBUG] >>
    \o (IF json_log # "None" THEN << [kind |-> "json", level |-> DEBUG] >> ELSE << >>)
    \o << [kind |-> "console", level |-> console_level] >>

\* the handlers of a logger that is not cleared before the new ones are added
HandlersKept(handlers, json_log, console_level) ==
  handlers \o NewHandlers(json_log, console_level)

\* logger.handlers.clear() and the addHandler calls : logging_setup.py:84-148
HandlersAfterInit(handlers, json_log, console_level) ==
  NewHandlers(json_log, console_level)

\* init_general_logger : logging_setup.py:48-150
init_general_logger(json_log, console_level) ==
  /\ glInits < MaxLoggerInits
  /\ glInits' = glInits + 1
  /\ glHandlers' = HandlersAfterInit(glHandlers, json_log, console_level)
  /\ glFilters' = << "UUIDFilter" >>
  /\ UNCHANGED << glText, glJson, glConsole, glNextRecord, glNextUuid >>
  /\ UNCHANGED << timerVars, relayVars, metricsVars, analysisVars, argsVars, ctorVars >>

\* the handlers callHandlers passes a record of the level to, in order:
\* `if record.levelno >= hdlr.level` : logging.Logger.callHandlers
Handling(handlers, level) == SelectSeq(handlers, LAMBDA h : level >= h.level)

\* the lines one kind of handler writes for a record: Handler.handle runs the
\* handler's own filters before emit, and every handler carries the
\* UUIDFilter (logging_setup.py:115, 128, 136), which sets record.uuid to a
\* new uuid4 (logging_setup.py:18-20); the n-th handler that handles the
\* record therefore writes the n-th uuid drawn after the logger's own filter
Emitted(handling, kind, record, level, first_uuid) ==
  LET at == SelectSeq([n \in 1..Len(handling) |-> n], LAMBDA n : handling[n].kind = kind)
  IN  [k \in 1..Len(at) |->
         [record |-> record, levelname |-> level, uuid |-> first_uuid + at[k]]]

\* logger.debug / logger.info on the configured logger: Logger.handle runs
\* the logger's filter, then callHandlers
log_call(level) ==
  LET handling == Handling(glHandlers, level)
      first == glNextUuid + Len(glFilters) - 1
  IN  /\ glInits > 0
      /\ glNextRecord <= MaxLogCalls
      /\ glNextRecord' = glNextRecord + 1
      /\ glNextUuid' = glNextUuid + Len(glFilters) + Len(handling)
      /\ glText' = glText \o Emitted(handling, "text", glNextRecord, level, first)
      /\ glJson' = glJson \o Emitted(handling, "json", glNextRecord, level, first)
      /\ glConsole' = glConsole \o Emitted(handling, "console", glNextRecord, level, first)
      /\ UNCHANGED << glHandlers, glFilters, glInits >>
      /\ UNCHANGED << timerVars, relayVars, metricsVars, analysisVars, argsVars, ctorVars >>

LoggerInitState ==
  /\ glHandlers = << >>
  /\ glFilters = << >>
  /\ glText = << >>
  /\ glJson = << >>
  /\ glConsole = << >>
  /\ glInits = 0
  /\ glNextRecord = 1
  /\ glNextUuid = 1

LoggerNext ==
  \/ \E json_log \in JsonLogs, console_level \in Levels :
        init_general_logger(json_log, console_level)
  \/ \E level \in Levels : log_call(level)

\* -------------------------------------------------------- specification
TimerInitState ==
  /\ timers = [t \in Instances |-> NoTimer]
  /\ catchers = [c \in Instances |-> NoCatcher]
  /\ fileLock = [t \in Instances |-> Free]
  /\ rootHandlers = << >>
  /\ errHandlers = << >>
  /\ files = [path \in Paths |-> NoFile]
  /\ rootLog = << >>
  /\ errLog = << >>
  /\ pc = [p \in Processes |-> "idle"]
  /\ inv = [p \in Processes |-> NoCall]
  /\ nextUuid = 1
  /\ fCalls = [p \in Processes |-> 0]

\* the producers are alike, so they are numbered in the order in which
\* they make their calls
MayCall(p) == \A q \in Producers : q < p => pc[q] # "idle"

\* one step of producer p
Step(p) ==
  \/ \E t \in Timers, fn \in FuncNames, args \in ArgValues :
        MayCall(p) /\ TimerCall(p, t, fn, args)
  \/ \E c \in Catchers, fn \in FuncNames, args \in ArgValues :
        MayCall(p) /\ CatcherCall(p, c, fn, args)
  \/ \E o \in Outcomes : TimerExcept(p, o)
  \/ \E o \in Outcomes : TimerLog(p, o)
  \/ WrapperLock(p)
  \/ SaveResults(p)
  \/ WriteCsv(p)
  \/ ReadParquet(p)
  \/ RewriteParquet(p)
  \/ SaveResultsUnlock(p)
  \/ WrapperUnlock(p)
  \/ \E o \in Outcomes : CatcherReturn(p, o)
  \/ \E o \in Outcomes : CatcherExcept(p, o)
  \/ CatcherReraise(p)

\* how many decorator instances exist
Made == Cardinality({ t \in Timers : timers[t].made })
          + Cardinality({ c \in Catchers : catchers[c].made })

\* how many decorator instances exist in a module that makes several
Built == Cardinality({ t \in Instances : timers[t].made })
           + Cardinality({ c \in Instances : catchers[c].made })

\* the decorators are applied when the module is imported, before any
\* wrapped function is called : tests/test_monitoring.py:25-38
Construct ==
  /\ Made < NumInstances
  /\ \A p \in Producers : pc[p] = "idle" /\ fCalls[p] = 0
  /\ \/ \E t \in Timers, mp \in BOOLEAN, fmt \in Formats, toFile \in BOOLEAN :
          TimerInit(t, mp, fmt, toFile)
     \/ \E c \in Catchers, fmt \in Formats, toFile \in BOOLEAN, sanitize \in BOOLEAN :
          CatcherInit(c, fmt, toFile, sanitize)

\* constructor calls with any results_format, valid or not
ConstructNext ==
  /\ Built < NumObjects
  /\ \/ \E t \in Instances, mp \in BOOLEAN, fmt \in GivenFormats, toFile \in BOOLEAN :
          TimerInit(t, mp, fmt, toFile)
     \/ \E c \in Instances, fmt \in GivenFormats, toFile \in BOOLEAN, sanitize \in BOOLEAN :
          CatcherInit(c, fmt, toFile, sanitize)

\* a module that applies several decorators when it is imported, before
\* any wrapped function is called
ConstructSeveral ==
  /\ Built < NumObjects
  /\ \A p \in Processes : pc[p] = "idle" /\ fCalls[p] = 0
  /\ \/ \E t \in Instances, mp \in BOOLEAN, fmt \in Formats, toFile \in BOOLEAN :
          TimerInit(t, mp, fmt, toFile)
     \/ \E c \in Instances, fmt \in Formats, toFile \in BOOLEAN, sanitize \in BOOLEAN :
          CatcherInit(c, fmt, toFile, sanitize)

\* the calls of the producers through any of the instances
StepThrough(p) ==
  \/ \E t \in Instances, fn \in FuncNames, args \in ArgValues :
        MayCall(p) /\ TimerCall(p, t, fn, args)
  \/ \E c \in Instances, fn \in FuncNames, args \in ArgValues :
        MayCall(p) /\ CatcherCall(p, c, fn, args)
  \/ \E o \in Outcomes : TimerExcept(p, o)
  \/ \E o \in Outcomes : TimerLog(p, o)
  \/ WrapperLock(p)
  \/ SaveResults(p)
  \/ WriteCsv(p)
  \/ ReadParquet(p)
  \/ RewriteParquet(p)
  \/ SaveResultsUnlock(p)
  \/ WrapperUnlock(p)
  \/ \E o \in Outcomes : CatcherReturn(p, o)
  \/ \E o \in Outcomes : CatcherExcept(p, o)
  \/ CatcherReraise(p)

InstancesNext == ConstructSeveral \/ \E p \in Producers : StepThrough(p)

\* the processes are alike, so they are numbered in the order in which
\* they make their calls
MayCallNext(p) == \A q \in Processes : q < p => pc[q] # "idle"

\* the worker processes of a pool calling, each once, a function wrapped by
\* one Timer(log_to_file=True, use_multiprocessing=False) : test.py:35-72
RaceNext ==
  \/ \E fmt \in Formats : Built = 0 /\ TimerInit(1, FALSE, fmt, TRUE)
  \/ \E p \in Processes, fn \in FuncNames, args \in ArgValues :
        MayCallNext(p) /\ TimerCall(p, 1, fn, args)
  \/ \E p \in Processes, o \in Outcomes : TimerLog(p, o)
  \/ \E p \in Processes : WrapperLock(p)
  \/ \E p \in Processes : SaveResults(p)
  \/ \E p \in Processes : WriteCsv(p)
  \/ \E p \in Processes : ReadParquet(p)
  \/ \E p \in Processes : RewriteParquet(p)
  \/ \E p \in Processes : SaveResultsUnlock(p)
  \/ \E p \in Processes : WrapperUnlock(p)

MetricsInitState ==
  /\ logLines = << >>
  /\ metricsOut = {}
  /\ metricsEnd = << >>
  /\ nextCallId = 1
  /\ perfLast = 0

AnalysisInitState ==
  /\ logFile = << >>
  /\ run = NoRun
  /\ stamps = << >>
  /\ dense = NoDense

Init ==
  /\ TimerInitState /\ RelayInitState /\ MetricsInitState /\ AnalysisInitState
  /\ ArgsInitState
  /\ ctor = NoCtor
  /\ LoggerInitState

Next == Construct \/ \E p \in Producers : Step(p)

vars == << timerVars, relayVars, metricsVars, analysisVars, argsVars, ctorVars, loggerVars >>

Spec == Init /\ [][Next]_vars

\* every producer that can take a step eventually takes one: each is a
\* process or thread of its own, scheduled by the operating system
FairSpec == Spec /\ \A p \in Producers : WF_vars(Step(p))

\* the relay of pymaap/logging_backend.py on its own
RelaySpec == Init /\ [][RelayNext]_vars

\* every writer is a process of its own and takes the next item of its
\* queue when there is one; join() returns once the process has ended
RelayFairSpec ==
  /\ RelaySpec
  /\ \A k \in 1..MaxInits : WF_vars(k <= Len(writers) /\ writer_worker(k))
  /\ WF_vars(shutdown_join)

\* the manual metrics calls and the log they leave
MetricsSpec == Init /\ [][MetricsNext]_vars

\* the metrics calls of one function, for the durations they leave
PerfSpec == Init /\ [][PerfNext]_vars

\* the constructors of the two decorators on their own
ConstructSpec == Init /\ [][ConstructNext]_vars

\* calls through the instances of a module that makes several decorators
InstancesSpec == Init /\ [][InstancesNext]_vars

\* concurrent calls through a Timer that does not lock
RaceSpec == Init /\ [][RaceNext]_vars

\* the general logger of pymaap/logging_setup.py on its own
LoggerSpec == Init /\ [][LoggerNext]_vars

\* the argument text of calls through the two decorators
ArgsSpec == Init /\ [][ArgsNext]_vars

\* calls of the detector on collected log lines
DetectSpec == Init /\ [][DetectNext]_vars

\* runs of the analysis entry point on the log files programs have written
AnalysisSpec == Init /\ [][AnalysisNext]_vars

\* ------------------------------------------------- properties: the locks
\* a producer waiting in `with self.file_lock:` for a lock that is held
Blocked(p) ==
  /\ pc[p] \in {"save", "save_results"}
  /\ UsesLock(inv[p].inst)
  /\ ~CanAcquire(inv[p].inst)

\* a producer inside the write of its results file
InWrite(p) == pc[p] \in {"write", "rewrite"}

\* the rows of producer p's call in its results file
RowsOf(p) ==
  LET file == files[PathOf(p)]
  IN  IF file.exists /\ inv[p].row # << >>
        THEN Cardinality({ n \in 1..Len(file.rows) :
                             file.rows[n] = StoredRow(Wrapper(p), FormatOf(p), inv[p].row) })
        ELSE 0

\* a call through a Timer(use_multiprocessing=True, log_to_file=True) whose
\* function returned normally
LockedCall(p) ==
  /\ Wrapper(p) = "timer"
  /\ UsesLock(inv[p].inst)
  /\ TimerOf(p).log_to_file
  /\ inv[p].outcome.kind = "return"

\* C1: a call through Timer(use_multiprocessing=True, log_to_file=True)
\* whose function returned normally always terminates: it takes the lock,
\* appends one row, releases the lock and returns
C1_LockedCallTerminates ==
  \A p \in Producers :
    LockedCall(p) ~> (pc[p] = "returned" /\ fileLock[inv[p].inst] # p /\ RowsOf(p) = 1)

\* C2: with use_multiprocessing=True at most one producer at a time is
\* inside the write of a results file, and the lock is held only while one
\* row is being written: its holder is on its way through the write and
\* is not itself waiting for a lock
C2_LockHeldOnlyForWrite ==
  /\ \A p, q \in Producers :
       (p # q /\ LockedCall(p) /\ LockedCall(q) /\ PathOf(p) = PathOf(q))
         => ~(InWrite(p) /\ InWrite(q))
  /\ \A t \in Timers :
       (timers[t].made /\ fileLock[t] # Free)
         => /\ pc[fileLock[t]] \in {"save_results", "write", "rewrite", "written", "saved"}
            /\ ~Blocked(fileLock[t])

\* C3: once every one of the N producers has made its call under the
\* mutual-exclusion sink and has come to rest, each results file holds
\* exactly one complete row per producer that wrote to it
C3_OneRowPerProducer ==
  (\A p \in Producers : LockedCall(p) /\ (pc[p] = "returned" \/ Blocked(p)))
    => \A fmt \in Formats :
         LET file == files[TimerResultsFile(fmt)]
             appenders == { p \in Producers : FormatOf(p) = fmt }
         IN  /\ appenders # {} => file.exists
             /\ file.exists => Len(file.rows) = Cardinality(appenders)
             /\ \A p \in appenders : RowsOf(p) = 1

\* ------------------------------------------- properties: the log records
RecordsOf(log, uuid) == { n \in 1..Len(log) : log[n].uuid = uuid }

ErrorRecords(p) ==
  LET log == IF Wrapper(p) = "timer" THEN rootLog ELSE errLog
  IN  { n \in RecordsOf(log, inv[p].uuid) : log[n].kind = "exception" }

\* C8 as stated: every call whose function raises emits exactly one error
\* record and the original exception reaches the caller unchanged
C8_OneErrorRecord ==
  \A p \in Producers :
    pc[p] = "raised" =>
      /\ Cardinality(ErrorRecords(p)) = 1
      /\ inv[p].final = inv[p].outcome

\* C8 amended: every call whose function raises an exception derived from
\* Exception emits exactly one error record, a call whose function raises
\* any other BaseException emits none, and in both cases the original
\* exception (type and message, not the sanitized text) reaches the caller
C8_OneErrorRecordPerException ==
  \A p \in Producers :
    pc[p] = "raised" =>
      /\ inv[p].outcome.kind = "raise"
      /\ Cardinality(ErrorRecords(p)) = IF Caught(inv[p].outcome.exc) THEN 1 ELSE 0
      /\ inv[p].final = inv[p].outcome
      /\ \A n \in ErrorRecords(p) :
           Wrapper(p) = "catcher" =>
             errLog[n].text = ErrorMsg(inv[p].inst, inv[p].outcome.exc)

C8_Witness ==
  \E p \in Producers :
    /\ pc[p] = "raised"
    /\ Wrapper(p) = "catcher"
    /\ CatcherOf(p).sanitize_func
    /\ Caught(inv[p].outcome.exc)
    /\ \E n \in ErrorRecords(p) : errLog[n].text # inv[p].outcome.exc.msg

\* C9: for every configuration the wrapper invokes f exactly once with the
\* original arguments, hands f's result or exception on unchanged, and
\* returns whenever f returned
C9_OutcomeTransparent ==
  /\ [](\A p \in Producers :
          /\ fCalls[p] <= 1
          /\ pc[p] # "idle" => (fCalls[p] = 1 /\ inv[p].fargs = inv[p].args)
          /\ pc[p] \in {"returned", "raised"} => inv[p].final = inv[p].outcome
          /\ pc[p] = "returned" => inv[p].outcome.kind = "return"
          /\ pc[p] = "raised" => inv[p].outcome.kind = "raise")
  /\ \A p \in Producers : (inv[p].outcome.kind = "return") ~> (pc[p] = "returned")

\* C10: every row a Timer-wrapped call appends has, under the header's
\* columns, the call's correlation id in UUID, the function's name in
\* Function Name and the positive elapsed time in Execution Time (s)
C10_RowUnderHeader ==
  \A fmt \in Formats :
    LET file == files[TimerResultsFile(fmt)]
    IN  file.exists =>
          \A n \in 1..Len(file.rows) :
            /\ Column(file, file.rows[n], "UUID")[1] = "call_uuid"
            /\ Column(file, file.rows[n], "Function Name")[1] = "function_name"
            /\ Column(file, file.rows[n], "Execution Time (s)")[1] = "elapsed_time"
            /\ Column(file, file.rows[n], "Execution Time (s)")[2] > 0

\* ------------------------------------------------ properties: the relay
\* the writers that are running on log file f
RunningWriters(f) ==
  { k \in 1..Len(writers) : writers[k].state = "running" /\ writers[k].file = f }

\* C4: every line of a log store was written by a dedicated writer of that
\* store, and at no time are two writers running for the same store
C4_SingleWriter ==
  \A f \in LogFiles :
    /\ Cardinality(RunningWriters(f)) <= 1
    /\ \A n \in 1..Len(logStore[f]) :
         /\ logStore[f][n].by \in 1..Len(writers)
         /\ writers[logStore[f][n].by].file = f

\* the records still waiting in queue q ahead of a sentinel
AheadOfSentinel(q) ==
  { n \in 1..Len(q) : q[n] # StopItem /\ \E m \in (n + 1)..Len(q) : q[m] = StopItem }

\* C5: when shutdown_multiprocessing_logging has returned, the writer has
\* terminated and every record enqueued before the sentinel has been
\* written: none is still waiting in the queue ahead of a sentinel
C5_ShutdownFlushes ==
  (mainPc = "shutdown_done" /\ logQueue # NoQueue)
    => /\ writers[writerProcess].state = "terminated"
       /\ AheadOfSentinel(queues[logQueue]) = {}

\* ------------------------------------------ properties: the metrics calls
StartLines(id) ==
  { n \in 1..Len(logLines) : logLines[n].message.type = "start" /\ logLines[n].message.id = id }

EndLines(id) ==
  { n \in 1..Len(logLines) : logLines[n].message.type = "end" /\ logLines[n].message.id = id }

\* the get_metrics_end calls made on the metrics dict m
EndCalls(m) == { n \in 1..Len(metricsEnd) : metricsEnd[n].id = m.id }

\* the time windows that hold the start line of m and one of its end lines
Windows(m) ==
  { w \in WallTimes \X WallTimes :
      /\ \E n \in StartLines(m.id) : InWindow(logLines[n], w[1], w[2])
      /\ \E n \in EndLines(m.id) : InWindow(logLines[n], w[1], w[2]) }

\* the call records parse_log_lines builds for id over window w
RecordsFor(id, w) ==
  LET parsed == parse_log_lines(logLines, w[1], w[2])
  IN  { n \in 1..Len(parsed.records) : parsed.records[n].CallID = id }

\* one start record, one end record per end call, all with the id and the
\* function name of m, and one CallRecord over every window holding both
OnePair(m) ==
  /\ Cardinality(StartLines(m.id)) = 1
  /\ Cardinality(EndLines(m.id)) = Cardinality(EndCalls(m))
  /\ \A n \in StartLines(m.id) \cup EndLines(m.id) : logLines[n].message.name = m.func
  /\ \A w \in Windows(m) : Cardinality(RecordsFor(m.id, w)) = 1
  /\ \E w \in Windows(m) : TRUE

\* C6 as stated: every get_metrics_start followed by get_metrics_end on the
\* metrics it returned leaves exactly one start and one end record with the
\* same correlation id and function name, and exactly one CallRecord
C6_OnePairPerCall ==
  \A m \in metricsOut : EndCalls(m) # {} => OnePair(m)

\* a name the grammar's name token takes whole
PlainName(name) == name # << >> /\ \A n \in 1..Len(name) : name[n] \notin Separators

\* C6 amended: the same, for the calls where get_metrics_end is given no
\* func_name or the func_name of the start, and that name is not empty and
\* holds no whitespace and no colon
C6_OnePairPerNamedCall ==
  \A m \in metricsOut :
    ( /\ EndCalls(m) # {}
      /\ \A n \in EndCalls(m) : metricsEnd[n].func = m.func
      /\ PlainName(m.func) )
      => OnePair(m)

C6_Witness ==
  \E m \in metricsOut :
    /\ EndCalls(m) # {}
    /\ \A n \in EndCalls(m) : metricsEnd[n].func = m.func
    /\ PlainName(m.func)
    /\ RecordsFor(m.id, << 0, MaxWall >>) # {}

\* --------------------------------------------- properties: the detector
\* the maximal runs of the sorted timestamps ts whose consecutive gaps are
\* at most gap: pairs << first position, last position >>
DenseRun(ts, i, j, gap) == \A n \in i..(j - 1) : ts[n + 1] - ts[n] <= gap

MaximalRuns(ts, gap) ==
  { r \in (1..Len(ts)) \X (1..Len(ts)) :
      /\ r[1] <= r[2]
      /\ DenseRun(ts, r[1], r[2], gap)
      /\ r[1] = 1 \/ ts[r[1]] - ts[r[1] - 1] > gap
      /\ r[2] = Len(ts) \/ ts[r[2] + 1] - ts[r[2]] > gap }

QualifyingRuns(ts, min, gap) == { r \in MaximalRuns(ts, gap) : r[2] - r[1] + 1 >= min }

\* C14: the detector returns the first and last timestamp of the latest
\* maximal run of the sorted timestamps whose gaps are <= gap_seconds and
\* whose size is >= min_cluster_size, and (None, None) when the input is
\* empty or no run qualifies
C14_MostRecentQualifyingRun ==
  dense.called =>
    LET ts == Sorted(stamps)
        runs == QualifyingRuns(ts, dense.min_cluster_size, dense.gap_seconds)
    IN  IF runs = {}
          THEN ~dense.result.found
          ELSE LET last == CHOOSE r \in runs : \A q \in runs : q[1] <= r[1]
               IN  /\ dense.result.found
                   /\ dense.result.start = ts[last[1]]
                   /\ dense.result.end = ts[last[2]]

C14_Witness ==
  /\ dense.called
  /\ dense.result.found
  /\ dense.min_cluster_size >= 2
  /\ Cardinality(QualifyingRuns(Sorted(stamps), dense.min_cluster_size, dense.gap_seconds)) >= 2
  /\ stamps # Sorted(stamps)

\* the cluster candidates: every value `cluster` has when the loop closes
\* it, and its value after the loop
Candidates(ts, min, gap) ==
  LET loop == ClusterLoop(ts, Len(ts), min, gap)
  IN  Append(loop.closed, loop.cluster)

RECURSIVE Flatten(_)
Flatten(seqs) ==
  IF seqs = << >> THEN << >> ELSE Flatten(SubSeq(seqs, 1, Len(seqs) - 1)) \o seqs[Len(seqs)]

\* the candidate that holds position n of the sorted timestamps
RECURSIVE CandidateOf(_, _, _)
CandidateOf(cands, c, n) ==
  IF n <= Len(cands[c]) THEN c ELSE CandidateOf(cands, c + 1, n - Len(cands[c]))

\* C15: the cluster candidates partition the sorted timestamps, every
\* timestamp is in exactly one, and two consecutive timestamps are in the
\* same candidate exactly when their gap is <= gap_seconds
C15_CandidatesPartition ==
  (dense.called /\ stamps # << >>) =>
    LET ts == Sorted(stamps)
        cands == Candidates(ts, dense.min_cluster_size, dense.gap_seconds)
    IN  /\ Flatten(cands) = ts
        /\ \A c \in 1..Len(cands) : cands[c] # << >>
        /\ \A n \in 1..(Len(ts) - 1) :
             (CandidateOf(cands, 1, n) = CandidateOf(cands, 1, n + 1))
               <=> (ts[n + 1] - ts[n] <= dense.gap_seconds)

C15_Witness ==
  /\ dense.called
  /\ dense.gap_seconds >= 1
  /\ LET ts == Sorted(stamps)
     IN  /\ \E n \in 1..(Len(ts) - 1) : ts[n + 1] - ts[n] = dense.gap_seconds
         /\ \E n \in 1..(Len(ts) - 1) : ts[n + 1] - ts[n] > dense.gap_seconds

\* C16: the size filter is inclusive: a candidate is returned only if it
\* has at least min_cluster_size timestamps, and one is returned whenever
\* some candidate has that many, exactly min_cluster_size included
C16_InclusiveSizeFilter ==
  (dense.called /\ stamps # << >>) =>
    LET ts == Sorted(stamps)
        cands == Candidates(ts, dense.min_cluster_size, dense.gap_seconds)
        big == { c \in 1..Len(cands) : Len(cands[c]) >= dense.min_cluster_size }
    IN  /\ dense.result.found <=> big # {}
        /\ dense.result.found =>
             \E c \in big : /\ dense.result.start = cands[c][1]
                            /\ dense.result.end = cands[c][Len(cands[c])]

C16_Witness ==
  /\ dense.called
  /\ dense.min_cluster_size >= 2
  /\ dense.result.found
  /\ LET cands == Candidates(Sorted(stamps), dense.min_cluster_size, dense.gap_seconds)
     IN  /\ Len(cands[Len(cands)]) = dense.min_cluster_size
         /\ \A c \in 1..(Len(cands) - 1) : Len(cands[c]) = dense.min_cluster_size - 1
         /\ Len(cands) >= 2

\* a call with the default parameters on the block split after k lines
DefaultCall(k) ==
  /\ dense.called
  /\ stamps = Block(k)
  /\ dense.min_cluster_size = DefaultMinClusterSize
  /\ dense.gap_seconds = DefaultGapSeconds

\* C17 as stated: with the defaults the unsplit block gives the span of
\* all its timestamps, and the block split in two by a 60-second gap gives
\* the later group's span, for every way of splitting it
C17_LaterGroupForEverySplit ==
  \A k \in 0..(BlockSize - 1) :
    DefaultCall(k) =>
      /\ dense.result.found
      /\ dense.result.start = stamps[k + 1]
      /\ dense.result.end = stamps[BlockSize]

\* C17 amended: the split block gives the later group's span when the
\* later group has at least min_cluster_size timestamps, the earlier
\* group's span when only the earlier group has that many, and
\* (None, None) when neither has
C17_LaterGroupIfLargeEnough ==
  \A k \in 0..(BlockSize - 1) :
    DefaultCall(k) =>
      IF BlockSize - k >= DefaultMinClusterSize
        THEN /\ dense.result.found
             /\ dense.result.start = stamps[k + 1]
             /\ dense.result.end = stamps[BlockSize]
        ELSE IF k >= DefaultMinClusterSize
          THEN /\ dense.result.found
               /\ dense.result.start = stamps[1]
               /\ dense.result.end = stamps[k]
          ELSE ~dense.result.found

C17_Witness ==
  \E k \in 1..(BlockSize - 1) :
    /\ DefaultCall(k)
    /\ BlockSize - k >= DefaultMinClusterSize
    /\ dense.result.found
    /\ dense.result.start > SplitGap

\* ----------------------------------------- properties: the analysis run
\* the lines load_all_log_lines hands on
LoadedLines == load_all_log_lines(logFile).log_lines

\* a run that was given both ends of the window and has called
\* parse_log_lines on lines whose timestamps all have the comma form
ParsedRun ==
  /\ run.ran
  /\ run.start_override # None /\ run.end_override # None
  /\ load_all_log_lines(logFile).raised = "no"
  /\ LoadedLines # << >>
  /\ \A n \in 1..Len(LoadedLines) : LoadedLines[n].timestamp.sep = ","

\* the entries of phase `type` inside the window: the loaded lines the
\* grammar matches, with their keys
Entries(type) ==
  { n \in 1..Len(LoadedLines) :
      /\ InWindow(LoadedLines[n], run.start_override, run.end_override)
      /\ Match(LoadedLines[n].message).matched
      /\ LoadedLines[n].message.type = type }

KeyOf(n) == << FuncGroup(LoadedLines[n].message.name), LoadedLines[n].message.id >>

\* the keys with both a start and an end entry inside the window
PairedKeys == { KeyOf(n) : n \in Entries("start") } \cap { KeyOf(n) : n \in Entries("end") }
\* the keys with an entry of one phase only
LoneKeys ==
  ({ KeyOf(n) : n \in Entries("start") } \cup { KeyOf(n) : n \in Entries("end") }) \ PairedKeys

RecordKeys(records) == { << records[n].Function, records[n].CallID >> : n \in 1..Len(records) }

\* C11: parse_log_lines gives a CallRecord for a key exactly when the lines
\* inside the window hold both a start and an end entry with that key; a
\* key with only one of them is dropped without an error
C11_RecordIffBothPhases ==
  ParsedRun =>
    /\ run.outcome.raised = "no"
    /\ RecordKeys(run.outcome.records) = PairedKeys
    /\ Len(run.outcome.records) = Cardinality(PairedKeys)

\* the lines that decode to a record with timestamp and message, a
\* timestamp that parses and a message of the grammar
WellFormed(line) ==
  /\ Admitted(line)
  /\ ~StrptimeFails(line.timestamp)
  /\ Match(line.message).matched

\* C12: malformed input never aborts reconstruction: whatever other lines
\* the files hold, load_all_log_lines followed by parse_log_lines returns
\* the CallRecords of the well-formed lines
C12_MalformedLinesSkipped ==
  (run.ran /\ run.start_override # None /\ run.end_override # None) =>
    LET expected == parse_log_lines(SelectSeq(logFile, WellFormed),
                                    run.start_override, run.end_override)
    IN  expected.raised = "no" =>
          /\ run.outcome.raised = "no"
          /\ run.outcome.records = expected.records

\* C13: when the window holds no matched start/end pair, parse_log_lines
\* returns an empty table without raising, and the run ends with a warning
\* and writes no file
C13_EmptyWindowWarns ==
  (ParsedRun /\ PairedKeys = {}) =>
    /\ run.outcome.raised = "no"
    /\ run.outcome.records = << >>
    /\ run.outcome.warning = "No function calls found in selected time window."
    /\ run.outcome.written = {}

\* C19: a record whose timestamp has a comma or a dot before the
\* fraction is processed by detect_recent_dense_block and parse_log_lines
\* without error
C19_CommaAndDotAccepted ==
  ( /\ run.ran
    /\ load_all_log_lines(logFile).raised = "no"
    /\ \A n \in 1..Len(LoadedLines) : LoadedLines[n].timestamp.sep \in {",", "."} )
    => run.outcome.raised # "ValueError"

\* ------------------------------------- properties: the perf durations
\* wall= values to put in place of those of the log: the earliest reading
\* and one later than any reading of the log
WallFields == { Format4(0), Format4(MaxWall) + 1 }

\* the log with the wall= field of line n replaced by walls[n]
WithWalls(walls) ==
  [n \in 1..Len(logLines) |-> [logLines[n] EXCEPT !.message.wall = walls[n]]]

\* the CallRecords parse_log_lines builds from lines for id over window w
CallRecordsOf(lines, id, w) ==
  LET parsed == parse_log_lines(lines, w[1], w[2])
  IN  { parsed.records[n] : n \in { k \in 1..Len(parsed.records) : parsed.records[k].CallID = id } }

\* C18: the Perf Duration of a CallRecord built from the start and end
\* records of one invocation is end.perf - start.perf, is >= 0, and is the
\* same in every log that differs only in its wall= fields
C18_PerfDurationIgnoresWall ==
  \A m \in metricsOut : \A w \in Windows(m) :
    \A r \in CallRecordsOf(logLines, m.id, w) :
      /\ r.PerfDuration >= 0
      /\ \E s \in StartLines(m.id), e \in EndLines(m.id) :
           r.PerfDuration = logLines[e].message.perf - logLines[s].message.perf
      /\ \A walls \in [1..Len(logLines) -> WallFields] :
           { x.PerfDuration : x \in CallRecordsOf(WithWalls(walls), m.id, w) } = { r.PerfDuration }

\* a call whose wall clock went back between start and end, with a
\* CallRecord of positive Perf Duration
C18_Witness ==
  \E m \in metricsOut : \E n \in EndCalls(m) :
    /\ metricsEnd[n].wall_end < m.wall_start
    /\ \E r \in CallRecordsOf(logLines, m.id, << 0, MaxWall >>) : r.PerfDuration > 0

\* ------------------------------------- properties: the argument text
HasDigit(s) == \E n \in 1..Len(s) : IsDigit(s[n])

\* C20: with the digit-masking sanitizer configured, the argument text
\* stored for a call holds no digit, whatever the positional and keyword
\* arguments are
C20_NoDigitInArguments ==
  (argsRow.written /\ argsRow.sanitize_func) => ~HasDigit(argsRow.args_repr)

\* ------------------------------------- properties: the constructors
ValidSpellings == {"csv", "parquet", "CSV", "Parquet"}
Created == << timers, catchers, fileLock, files, rootHandlers, errHandlers >>

\* C21: a constructor given a results_format other than csv or parquet,
\* in any case, raises ValueError and leaves instances, results files and
\* handlers as they were; given csv or parquet in any case it does not raise
C21_InvalidFormatFailsFast ==
  [][ /\ ctor'.called
      /\ ctor'.raised = "ValueError" <=> ctor'.results_format \notin ValidSpellings
      /\ ctor'.raised = "ValueError" => UNCHANGED Created
      /\ ctor'.raised = "no" => Created' # Created ]_vars

\* a constructor has raised ValueError and nothing exists
C21_Witness ==
  /\ ctor.called /\ ctor.raised = "ValueError" /\ ctor.results_format = "json"
  /\ \A t \in Timers : ~timers[t].made
  /\ \A c \in Catchers : ~catchers[c].made
  /\ \A path \in Paths : ~files[path].exists
  /\ rootHandlers = << >> /\ errHandlers = << >>

\* ------------------------------------- properties: the general logger
Count(lines, record) ==
  Cardinality({ n \in 1..Len(lines) : lines[n].record = record })
HandlersOf(kind) ==
  Cardinality({ n \in 1..Len(glHandlers) : glHandlers[n].kind = kind })
LogCalls == 1..(glNextRecord - 1)

\* the handlers the logger holds after init_general_logger: one plain-text
\* handler, at most one JSON handler and one console handler
OneHandlerEach ==
  glInits > 0 => /\ HandlersOf("text") = 1
                 /\ HandlersOf("json") <= 1
                 /\ HandlersOf("console") = 1
                 /\ Len(glHandlers) = 2 + HandlersOf("json")

\* C22 as stated: one handler of each kind, and every log call is written
\* exactly once to the plain-text log and to the console
C22_OncePerDestination ==
  /\ OneHandlerEach
  /\ \A r \in LogCalls : Count(glText, r) = 1 /\ Count(glConsole, r) = 1 /\ Count(glJson, r) <= 1

\* C22: one handler of each kind after any number of init_general_logger
\* calls; a log call is written exactly once to the plain-text log, exactly
\* once to the JSON log when the logger has a JSON handler, and to the
\* console exactly once when its level is at least console_level and not
\* at all when it is below
C22_OncePerHandlingDestination ==
  /\ []OneHandlerEach
  /\ [][ glNextRecord' # glNextRecord =>
          LET r == glNextRecord
              level == glText'[Len(glText')].levelname
              console == glHandlers[CHOOSE n \in 1..Len(glHandlers) :
                                      glHandlers[n].kind = "console"]
          IN  /\ Count(glText', r) = 1
              /\ Count(glJson', r) = HandlersOf("json")
              /\ Count(glConsole', r) = (IF level >= console.level THEN 1 ELSE 0) ]_vars

\* the logger was initialised twice, the second time with a JSON log, and
\* of the calls made afterwards one is in all three destinations once and
\* one is not on the console
C22_Witness ==
  /\ glInits = 2
  /\ HandlersOf("json") = 1
  /\ \E r \in LogCalls : Count(glText, r) = 1 /\ Count(glJson, r) = 1 /\ Count(glConsole, r) = 1
  /\ \E r \in LogCalls : Count(glText, r) = 1 /\ Count(glJson, r) = 1 /\ Count(glConsole, r) = 0

\* C23: the plain-text line and the JSON line of one log call carry the
\* same uuid
C23_SameUuidInBothLogs ==
  \A n \in 1..Len(glText), k \in 1..Len(glJson) :
    glText[n].record = glJson[k].record => glText[n].uuid = glJson[k].uuid

\* ------------------------------------- properties: the missing overrides
\* the timestamps of the loaded lines, as the detector sorts them
LoadedStamps == Sorted([n \in 1..Len(LoadedLines) |-> LoadedLines[n].timestamp.at])

\* a run that has asked the detector, on lines it can read, for a log
\* without a run of the default size and gap
ConsultedWithoutBlock ==
  /\ run.ran
  /\ run.outcome.consulted
  /\ run.outcome.raised = "no"
  /\ QualifyingRuns(LoadedStamps, DefaultMinClusterSize, DefaultGapSeconds) = {}

\* C24: analysis() asks the detector only when an override is missing, and
\* when the detector is asked and finds no dense block the run ends with
\* the warning, with no output directory and no file
C24_NoBlockWarnsBeforeOutput ==
  /\ (run.ran /\ run.outcome.consulted) =>
        (run.start_override = None \/ run.end_override = None)
  /\ (run.ran /\ run.start_override # None /\ run.end_override # None) =>
        ~run.outcome.consulted
  /\ ConsultedWithoutBlock =>
        /\ run.outcome.warning = "Could not detect a recent cluster of calls."
        /\ ~run.outcome.outdir
        /\ run.outcome.written = {}
        /\ run.outcome.records = << >>

\* a run given the start but not the end, on a log with a matched pair,
\* that has asked the detector and got no block
C24_Witness ==
  /\ ConsultedWithoutBlock
  /\ run.start_override # None /\ run.end_override = None
  /\ \E n, k \in 1..Len(LoadedLines) :
       /\ Match(LoadedLines[n].message).matched /\ Match(LoadedLines[k].message).matched
       /\ Match(LoadedLines[n].message).type = "start"
       /\ Match(LoadedLines[k].message).type = "end"
       /\ Match(LoadedLines[n].message).id = Match(LoadedLines[k].message).id

\* ------------------------------------- properties: the unlocked store
\* the processes whose call has written its row to the store of fmt
Written(fmt) ==
  { p \in Processes : /\ Wrapper(p) = "timer"
                      /\ FormatOf(p) = fmt
                      /\ pc[p] \in {"written", "saved", "returned"} }

\* the rows p read before it rewrites the store
ExistingRows(p) == IF inv[p].existing.exists THEN inv[p].existing.rows ELSE << >>

\* C25: without the lock the rewrite of the parquet store puts back the
\* rows its process read, plus its own, whatever the store holds by then:
\* the store never has more rows than calls that wrote, can have fewer, and
\* the csv store has one row per call that wrote
C25_RewriteOverwrites ==
  /\ [](\A fmt \in Formats :
          LET file == files[TimerResultsFile(fmt)]
          IN  Written(fmt) # {} =>
                /\ file.exists
                /\ Len(file.rows) >= 1
                /\ Len(file.rows) <= Cardinality(Written(fmt))
                /\ fmt = "csv" => Len(file.rows) = Cardinality(Written(fmt)))
  /\ [][ \A p \in Processes :
           (pc[p] = "rewrite" /\ pc'[p] = "written") =>
              files'[PathOf(p)].rows =
                Append(ExistingRows(p), StoredRow(Wrapper(p), "parquet", inv[p].row)) ]_vars

\* every process has returned from its call and the parquet store holds
\* fewer rows than calls: a row that had been written is gone
C25_Witness ==
  /\ \A p \in Processes : pc[p] = "returned" /\ ~UsesLock(inv[p].inst)
  /\ Cardinality(Written("parquet")) = NumProcesses
  /\ Len(files[TimerResultsFile("parquet")].rows) < NumProcesses
  /\ \E p \in Processes : RowsOf(p) = 0

\* ------------------------------------- properties: several instances
\* the handlers of the "error_catcher" logger that handled record n of
\* errLog: the record's handlers without those of the root logger
CatcherHandlers(n) ==
  SubSeq(errLog[n].handlers, 1, Len(errLog[n].handlers) - Len(rootHandlers))

\* C26: the error record of a call through an ErrorCatcher is handled by
\* the handlers that instance was constructed with, whichever instances
\* were constructed after it
C26_OwnErrorDestinations ==
  \A p \in Producers :
    (pc[p] # "idle" /\ Wrapper(p) = "catcher") =>
      \A n \in ErrorRecords(p) :
        CatcherHandlers(n) = SetupErrorLogging(inv[p].inst, CatcherOf(p).log_to_file)

\* C29: the log record of a call through a Timer constructed with
\* use_multiprocessing=True goes to the queue handler only
C29_MultiprocessingTimerUsesQueue ==
  \A p \in Producers :
    (pc[p] # "idle" /\ Wrapper(p) = "timer" /\ TimerOf(p).use_multiprocessing) =>
      \A n \in RecordsOf(rootLog, inv[p].uuid) : rootLog[n].handlers = << "queue" >>

\* ------------------------------------- properties: the relay's records
\* record n has been written by a writer or handled by the fallback logger
Delivered(n) ==
  \/ \E f \in LogFiles : \E k \in 1..Len(logStore[f]) : logStore[f][k].record = RecordItem(n)
  \/ \E k \in 1..Len(fallbackLog) : fallbackLog[k] = RecordItem(n)

\* C27: every record passed to log_event is eventually written by a writer
\* or handled by the fallback logger
C27_NoRecordLost ==
  \A n \in 1..MaxRecords : (nextRecord > n) ~> Delivered(n)

\* C28: when the one shutdown call made after the init calls has returned,
\* every writer that was started has terminated
C28_EveryWriterTerminated ==
  (mainPc = "shutdown_done" /\ shutdowns = 1) =>
    \A k \in 1..Len(writers) : writers[k].state = "terminated"

\* -------------------------------------- properties: one record per key
\* the entry of phase `type` with this key that comes last in input order
LastEntry(type, key) ==
  CHOOSE n \in Entries(type) :
    /\ KeyOf(n) = key
    /\ \A m \in Entries(type) : KeyOf(m) = key => m <= n

\* C30: parse_log_lines returns at most one CallRecord per key (function
\* name, correlation id); when several start or several end entries share
\* a key the one latest in input order is the one the record is built
\* from, and the number of CallRecords is the number of distinct keys that
\* have both phases
C30_OneRecordPerKey ==
  ParsedRun =>
    LET records == run.outcome.records
    IN  /\ \A i, j \in 1..Len(records) :
              ( /\ records[i].Function = records[j].Function
                /\ records[i].CallID = records[j].CallID ) => i = j
        /\ Len(records) = Cardinality(PairedKeys)
        /\ \A i \in 1..Len(records) :
              LET key == << records[i].Function, records[i].CallID >>
              IN  /\ key \in PairedKeys
                  /\ records[i].StartTime =
                        LoadedLines[LastEntry("start", key)].timestamp.at
                  /\ records[i].EndTime =
                        LoadedLines[LastEntry("end", key)].timestamp.at

\* a run over a window where one key has two start entries with different
\* timestamps, the later in input order being the earlier in time
C30_Witness ==
  /\ ParsedRun
  /\ Len(run.outcome.records) = 1
  /\ \E i, j \in Entries("start") :
        /\ i < j
        /\ KeyOf(i) = KeyOf(j)
        /\ KeyOf(i) \in PairedKeys
        /\ LoadedLines[i].timestamp.at > LoadedLines[j].timestamp.at

====
